---- MODULE Spec2Model ----
(***************************************************************************)
(* Stage5Validator (src/prompt/stage_5_app.md, lines 562-1507): the        *)
(* structural consistency validator of the generated React project.        *)
(*                                                                         *)
(* One run is main() -> validate() -> load_inputs() -> the fourteen rules  *)
(* -> the report -> sys.exit.  The artifact tree and the two schema        *)
(* documents are inputs, chosen by Init.  Strings the code takes apart     *)
(* (module specifiers, file names, view names, route keys) are sequences   *)
(* of tokens, so that split('/'), startswith, endswith, replace, upper     *)
(* and the regular-expression searches are computed, not looked up.        *)
(***************************************************************************)
EXTENDS Integers, Sequences, FiniteSets, TLC

\* ------------------------------------------------------------ bounds
\* The validator is run at most MaxRuns times on a tree (a re-run follows
\* an edit of the tree).
MaxRuns == 2
\* At most MaxMissing required markers are missing from a present file.
MaxMissing == 2
\* a.ts holds at most MaxImports import statements.
MaxImports == 2
\* API client: the requests sent.
MaxRequests == 3
\* usePagination: the items, the page size and the navigation calls.
MaxItems == 5
MaxPerPage == 3
MaxCalls == 3
\* UserList: the users on the server and the delete requests in flight.
MaxUsers == 3
MaxPending == 2

\* ------------------------------------------------------------ sequences
SeqToSet(s) == {s[i] : i \in 1..Len(s)}

IsPrefix(p, s) == Len(p) <= Len(s) /\ SubSeq(s, 1, Len(p)) = p

IsSuffix(p, s) == Len(p) <= Len(s) /\ SubSeq(s, Len(s) - Len(p) + 1, Len(s)) = p

IsInfix(p, s) ==
  \E i \in 0..Len(s) : i + Len(p) <= Len(s) /\ SubSeq(s, i + 1, i + Len(p)) = p

Front(s) == SubSeq(s, 1, Len(s) - 1)

Last(s) == s[Len(s)]

RECURSIVE Flatten(_)
Flatten(ss) == IF ss = <<>> THEN <<>> ELSE Head(ss) \o Flatten(Tail(ss))

\* The number of entries of sequence s that satisfy P.
CountIf(s, P(_)) == Cardinality({i \in 1..Len(s) : P(s[i])})

\* ------------------------------------------------------------ findings
\* A finding is the f-string the code appends: the validation name, the
\* message template (kind) and the values interpolated into it (args).
Finding(rule, kind, args) == [rule |-> rule, kind |-> kind, args |-> args]

\* The names a finding's message contains: the interpolated values.
Mentions(f) == SeqToSet(f.args)

\* The findings of a list that one rule appended.
ErrorsOfRule(errs, rule) == SelectSeq(errs, LAMBDA e : e.rule = rule)

\* ------------------------------------------------------------ the rules
RuleApp == "App Component"
RuleMain == "Main Entry Point"
RuleAppCss == "App.css Styles"
RuleIndexCss == "index.css Reset"
RuleAuth == "Auth Context"
RuleCtxBarrel == "Context Barrel Exports"
RuleHtml == "HTML Template"
RuleHtmlLoc == "HTML Template Location"
RulePkg == "Package.json Dependencies"
RuleNoPrev == "No Previous Stage Modifications"
RuleRouteView == "Route-View Matching"
RuleStorage == "Storage Exports"
RuleCompBarrel == "Component Barrel Exports"
RuleImports == "Import Validation"

\* The order in which validate() calls the rules.
ValidateOrder ==
  << RuleApp, RuleMain, RuleAppCss, RuleIndexCss, RuleAuth, RuleCtxBarrel,
     RuleHtml, RuleHtmlLoc, RulePkg, RuleNoPrev, RuleRouteView, RuleStorage,
     RuleCompBarrel, RuleImports >>

RuleNames == SeqToSet(ValidateOrder)

\* ------------------------------------------------------------ fixed files
AppFile == "src/App.tsx"
MainFile == "src/main.tsx"
AppCssFile == "src/App.css"
IndexCssFile == "src/index.css"
AuthFile == "src/context/AuthContext.tsx"
CtxIndexFile == "src/context/index.ts"
HtmlFile == "index.html"
PkgFile == "package.json"
RouterFile == "src/router/index.tsx"
RoutesFile == "src/router/routes.ts"
LayoutFile == "src/components/Layout.tsx"
NavbarFile == "src/components/Navbar.tsx"
ApiFile == "src/services/api.ts"
StorageFile == "src/utils/storage.ts"
CompIndexFile == "src/components/index.ts"

FixedFiles ==
  { AppFile, MainFile, AppCssFile, IndexCssFile, AuthFile, CtxIndexFile,
    HtmlFile, PkgFile, RouterFile, RoutesFile, LayoutFile, NavbarFile,
    ApiFile, StorageFile, CompIndexFile }

SrcDir == "src"
ViewsDir == "src/views"
ContextDir == "src/context"
ComponentsDir == "src/components"

Dirs == { SrcDir, ViewsDir, ContextDir, ComponentsDir }

\* The directories a fixed file lies in.
DirsOf(f) ==
  CASE f \in {AuthFile, CtxIndexFile} -> {SrcDir, ContextDir}
    [] f \in {LayoutFile, NavbarFile, CompIndexFile} -> {SrcDir, ComponentsDir}
    [] f \in {HtmlFile, PkgFile} -> {}
    [] OTHER -> {SrcDir}

\* ------------------------------------------------------------ markers
\* The required textual markers of each presence rule, in the order the
\* code searches for them; a marker is named by the message of its finding.
AppMarkers(auth) ==
  << "Missing React import", "Missing App component export",
     "Missing AppRouter import from router", "Missing App.css import",
     "AppRouter component not used" >>
  \o (IF auth
        THEN << "Auth enabled but missing AuthProvider import",
                "Auth enabled but AuthProvider not wrapping AppRouter" >>
        ELSE << >>)

MainMarkers ==
  << "Missing React import", "Missing ReactDOM import from 'react-dom/client'",
     "Missing App component import", "Missing index.css import",
     "Not using React 18 createRoot API", "Missing root element selection" >>

MainWarnMarkers == << "Should wrap App in React.StrictMode" >>

AppCssMarkers ==
  << "Missing styles for '.app'", "Missing styles for '.layout'",
     "Missing styles for '.navbar'", "Missing styles for 'button'" >>

IndexCssMarkers == << "Missing box-sizing reset", "Missing body styles" >>

IndexCssWarnMarkers == << "Should include :root or html styles" >>

AuthMarkers ==
  << "Missing createContext import from React",
     "Missing useContext import from React",
     "Missing AuthContext creation with createContext",
     "Missing AuthProvider export", "Missing useAuth hook export",
     "Missing login method", "Missing logout method" >>

CtxBarrelMarkers == << "Missing export for AuthContext" >>

HtmlMarkers ==
  << "Missing DOCTYPE declaration", "Missing charset meta tag",
     "Missing viewport meta tag", "Missing root div element",
     "Missing script tag for main.tsx" >>

StorageMarkers == << "tokenStorage not exported from storage.ts" >>

\* Every marker a fixed file can carry (its content satisfies the search).
AllMarkers(f) ==
  CASE f = AppFile -> SeqToSet(AppMarkers(TRUE))
    [] f = MainFile -> SeqToSet(MainMarkers \o MainWarnMarkers)
    [] f = AppCssFile -> SeqToSet(AppCssMarkers)
    [] f = IndexCssFile -> SeqToSet(IndexCssMarkers \o IndexCssWarnMarkers)
    [] f = AuthFile -> SeqToSet(AuthMarkers)
    [] f = CtxIndexFile -> SeqToSet(CtxBarrelMarkers)
    [] f = HtmlFile -> SeqToSet(HtmlMarkers)
    [] f = StorageFile -> SeqToSet(StorageMarkers)
    [] OTHER -> {}

\* ------------------------------------------------------------ manifest
Pkg(name) == << name >>
Scoped(scope, name) == << scope, name >>

RequiredDeps ==
  << Pkg("react"), Pkg("react-dom"), Pkg("react-router-dom"), Pkg("axios") >>

RequiredDevDeps ==
  << Scoped("@types", "react"), Scoped("@types", "react-dom"),
     Scoped("@vitejs", "plugin-react"), Pkg("typescript"), Pkg("vite") >>

RequiredScripts == << "dev", "build" >>

BaselineDeps == SeqToSet(RequiredDeps) \cup SeqToSet(RequiredDevDeps)


\* ------------------------------------------------------------ the tree
\* The artifact tree under base_path, as the rules see it:
\*   dirs            the directories of Dirs that exist
\*   fstat[f]        "absent", "unreadable" (open/read raises) or "ok"
\*   markers[f]      the markers whose search succeeds in f's content
\*   manifest        package.json: json (it parses), deps (the keys of
\*                   dependencies and devDependencies), scripts
\*   views           the stems of src/views/*.tsx, in glob order
\*   routeKeys       the keys followed by ':' in routes.ts
\*   routerImports   the names imported from views in router/index.tsx
\*   routerRendered  the names opening a Route element in router/index.tsx
\*   components      the stems of src/components/*.tsx, in glob order
\*   barrel          the names on export lines of components/index.ts
\*   modules         path -> content of the files os.walk and the resolver
\*                   can see; walk: the paths in os.walk order
Exists(t, f) == t.root /\ t.fstat[f] # "absent"

Readable(t, f) == t.fstat[f] = "ok"

\* The findings of one presence rule: file not found, or the read error, or
\* one finding per required marker that is missing, in the code's order.
\* (The text of the caught exception is not modelled.)
MissingMarkers(t, f, req) == SelectSeq(req, LAMBDA m : m \notin t.markers[f])

OneFindingPerMarker(rule, missing) ==
  [i \in 1..Len(missing) |-> Finding(rule, missing[i], << >>)]

AggregateFinding(rule, missing) ==
  IF missing = << >> THEN << >> ELSE << Finding(rule, "Missing markers", << >>) >>

MarkerFindings(rule, missing) == OneFindingPerMarker(rule, missing)

\* An early return: one error appended and the result stored False, or
\* nothing appended and the result stored True.
\* An early return that appends its error and stores True.
FailedStoredTrue(finding) == [errs |-> << finding >>, warns |-> << >>, result |-> TRUE]

Failed(finding) == [errs |-> << finding >>, warns |-> << >>, result |-> FALSE]

Passed == [errs |-> << >>, warns |-> << >>, result |-> TRUE]

\* The end of a rule that keeps no warning.
CollectedWithoutWarnings(file_errors, warns) ==
  [errs |-> file_errors, warns |-> << >>,
   result |-> IF file_errors # << >> THEN FALSE ELSE TRUE]

\* The end of a rule: 'if file_errors:' appends them and stores False,
\* else stores True.
Collected(file_errors, warns) ==
  [errs |-> file_errors, warns |-> warns,
   result |-> IF file_errors # << >> THEN FALSE ELSE TRUE]

PresenceOutcome(rule, t, f, req, warn, readError) ==
  IF ~Exists(t, f)
    THEN Failed(Finding(rule, "File not found", << << f >> >>))
    ELSE IF ~Readable(t, f)
      THEN Collected(<< Finding(rule, readError, << >>) >>, << >>)
      ELSE Collected(MarkerFindings(rule, MissingMarkers(t, f, req)),
                   MarkerFindings(rule, MissingMarkers(t, f, warn)))

\* validate_app_component
AppOutcome(t, auth) ==
  PresenceOutcome(RuleApp, t, AppFile, AppMarkers(auth), << >>, "Error reading file")

\* validate_main_entry
MainOutcome(t) ==
  PresenceOutcome(RuleMain, t, MainFile, MainMarkers, MainWarnMarkers,
                  "Error reading file")

\* validate_app_css
AppCssOutcome(t) ==
  PresenceOutcome(RuleAppCss, t, AppCssFile, AppCssMarkers, << >>,
                  "Error reading file")

\* validate_index_css
IndexCssOutcome(t) ==
  PresenceOutcome(RuleIndexCss, t, IndexCssFile, IndexCssMarkers,
                  IndexCssWarnMarkers, "Error reading file")

\* validate_auth_context: passes at once when authentication is disabled.
AuthIgnoringFlag(t, auth) ==
  PresenceOutcome(RuleAuth, t, AuthFile, AuthMarkers, << >>, "Error reading file")

AuthOutcome(t, auth) ==
  IF ~auth
    THEN Passed
    ELSE PresenceOutcome(RuleAuth, t, AuthFile, AuthMarkers, << >>,
                         "Error reading file")

\* validate_context_barrel_exports
CtxBarrelOutcome(t, auth) ==
  IF ContextDir \notin t.dirs \/ ~auth
    THEN Passed
    ELSE PresenceOutcome(RuleCtxBarrel, t, CtxIndexFile, CtxBarrelMarkers, << >>,
                         "Error reading file")

\* validate_html_template
HtmlOutcome(t) ==
  PresenceOutcome(RuleHtml, t, HtmlFile, HtmlMarkers, << >>, "Error reading file")

\* validate_html_location
HtmlLocOutcome(t) ==
  IF ~Exists(t, HtmlFile)
    THEN Failed(Finding(RuleHtmlLoc, "index.html not found in project root",
                            << >>))
    ELSE Passed

\* validate_storage_exports
StorageOutcome(t) ==
  IF ~Exists(t, StorageFile)
    THEN Passed
    ELSE PresenceOutcome(RuleStorage, t, StorageFile, StorageMarkers, << >>,
                         "Error reading storage.ts")

\* validate_package_json
PkgParsed(t) == Readable(t, PkgFile) /\ t.manifest.json

\* One finding for all the missing names together.
MissingFromAggregate(rule, kind, req, have) ==
  IF \E i \in 1..Len(req) : req[i] \notin have
    THEN << Finding(rule, kind, << >>) >>
    ELSE << >>

MissingFrom(rule, kind, req, have) ==
  LET miss == SelectSeq(req, LAMBDA d : d \notin have)
  IN [i \in 1..Len(miss) |-> Finding(rule, kind, << miss[i] >>)]

PkgOutcome(t) ==
  IF ~Exists(t, PkgFile)
    THEN Failed(Finding(RulePkg, "File not found", << << PkgFile >> >>))
    ELSE IF ~Readable(t, PkgFile)
      THEN Collected(<< Finding(RulePkg, "Error reading file", << >>) >>, << >>)
      ELSE IF ~t.manifest.json
        THEN Collected(<< Finding(RulePkg, "Invalid JSON", << >>) >>, << >>)
        ELSE Collected(
               MissingFrom(RulePkg, "Missing required dependency", RequiredDeps,
                           t.manifest.deps)
               \o MissingFrom(RulePkg, "Missing required dev dependency",
                              RequiredDevDeps, t.manifest.deps)
               \o MissingFrom(RulePkg, "Missing script",
                              [i \in 1..Len(RequiredScripts) |-> << RequiredScripts[i] >>],
                              {<< s >> : s \in t.manifest.scripts}),
               << >>)

\* self.installed_packages after validate_package_json: set only when the
\* manifest was read and parsed.
PkgInstalled(t, before) == IF PkgParsed(t) THEN t.manifest.deps ELSE before

\* validate_no_previous_modifications
CriticalFiles == << RouterFile, RoutesFile, LayoutFile, NavbarFile, ApiFile >>

NoPrevOutcome(t) ==
  LET miss == SelectSeq(CriticalFiles, LAMBDA f : ~Exists(t, f))
  IN Collected([i \in 1..Len(miss) |->
                Finding(RuleNoPrev, "Critical file missing or moved", << << miss[i] >> >>)],
             << >>)

\* ------------------------------------------------------------ names
\* An identifier is a sequence of name tokens: OrderView is
\* << "Order", "View" >>, REORDER is << "RE", "ORDER" >>.
Name1(a) == << a >>
Name2(a, b) == << a, b >>

\* str.upper(), token by token.
UpperTok(tok) ==
  CASE tok = "Order" -> "ORDER"
    [] tok = "User" -> "USER"
    [] tok = "Re" -> "RE"
    [] tok = "View" -> "VIEW"
    [] tok = "Form" -> "FORM"
    [] tok = "Home" -> "HOME"
    [] tok = "NotFound" -> "NOTFOUND"
    [] OTHER -> tok

Upper(name) == [i \in 1..Len(name) |-> UpperTok(name[i])]

\* str.replace('View', ''): every occurrence is removed.
RemoveView(name) == SelectSeq(name, LAMBDA tok : tok # "View")

\* The route constant the code derives from a view's file stem.
RouteConstant(view_name) == Upper(RemoveView(view_name))

\* A search that any key of the route table satisfies.
RouteConstantAnyKey(t, view_name) == t.routeKeys # {}

\* re.search(rf"{route_constant}\s*:", routes_content): the constant directly
\* before a ':', anywhere in the text, so any key that ends with it matches.
RouteConstantFound(t, view_name) ==
  \E key \in t.routeKeys : IsSuffix(RouteConstant(view_name), key)

\* re.search(rf"import.*{view_name}.*from.*views", router_content)
ViewImported(t, view_name) ==
  \E imp \in t.routerImports : IsInfix(view_name, imp)

\* re.search(rf"<Route.*element=\{{<{view_name}", router_content)
ViewRendered(t, view_name) ==
  \E el \in t.routerRendered : IsPrefix(view_name, el)

SpecialViews == { Name1("Home"), Name1("NotFound") }

ViewFindings(t, view_name) ==
  (IF ~RouteConstantFound(t, view_name)
     THEN << Finding(RuleRouteView, "View missing route constant in routes.ts",
                     << view_name >>) >>
     ELSE << >>)
  \o (IF ~ViewImported(t, view_name)
        THEN << Finding(RuleRouteView, "View not imported in router/index.tsx",
                        << view_name >>) >>
        ELSE << >>)
  \o (IF ~ViewRendered(t, view_name)
        THEN << Finding(RuleRouteView,
                        "View not used in any Route in router/index.tsx",
                        << view_name >>) >>
        ELSE << >>)

\* validate_route_view_matching
RouteViewOutcome(t) ==
  IF ViewsDir \notin t.dirs
    THEN Passed
    ELSE IF ~Exists(t, RoutesFile)
      THEN Failed(Finding(RuleRouteView, "routes.ts not found", << >>))
      ELSE IF ~Exists(t, RouterFile)
        THEN Failed(Finding(RuleRouteView, "router/index.tsx not found", << >>))
        ELSE IF ~Readable(t, RoutesFile) \/ ~Readable(t, RouterFile)
          THEN Collected(<< Finding(RuleRouteView, "Error validating routes", << >>) >>, << >>)
          ELSE LET view_files == SelectSeq(t.views, LAMBDA v : v \notin SpecialViews)
               IN Collected(Flatten([i \in 1..Len(view_files) |->
                                     ViewFindings(t, view_files[i])]),
                          << >>)

SpecialComponents == { Name1("Layout"), Name1("Navbar"), Name1("Sidebar") }

\* re.search(rf"export.*{component_name}", content)
ComponentExported(t, component_name) ==
  \E ex \in t.barrel : IsInfix(component_name, ex)

\* validate_component_barrel_exports
CompBarrelOutcome(t) ==
  IF ComponentsDir \notin t.dirs \/ ~Exists(t, CompIndexFile)
    THEN Passed
    ELSE IF ~Readable(t, CompIndexFile)
      THEN Collected(<< Finding(RuleCompBarrel, "Error validating component exports",
                              << >>) >>, << >>)
      ELSE LET component_files ==
                 SelectSeq(t.components, LAMBDA c : c \notin SpecialComponents)
               miss == SelectSeq(component_files,
                                 LAMBDA c : ~ComponentExported(t, c))
           IN Collected([i \in 1..Len(miss) |->
                         Finding(RuleCompBarrel,
                                 "Component not exported from components/index.ts",
                                 << miss[i] >>)],
                      << >>)

\* ------------------------------------------------------------ modules
\* A path is a sequence of segments followed by extension tokens:
\* src/b/index.ts is << "src", "b", "index", ".ts" >>.  A module specifier
\* is what split('/') gives, its last segment split at the extension:
\* './b' is << ".", "b" >>, './b.css' is << ".", "b", ".css" >>,
\* 'react-dom/client' is << "react-dom", "client" >>.
ExtToks == { ".ts", ".tsx", ".js", ".jsx", ".css" }

\* from_path.startswith('.')
IsRelative(spec) == Head(spec) \in { ".", ".." }

\* from_path.endswith('.css'), str(resolved_path).endswith('.css')
EndsWithCss(p) == Last(p) = ".css"

\* file.endswith('.ts') or file.endswith('.tsx')
IsTsFile(p) == Last(p) \in { ".ts", ".tsx" }

RECURSIVE StripExt(_)
StripExt(p) ==
  IF p # << >> /\ Last(p) \in ExtToks THEN StripExt(Front(p)) ELSE p

\* importing_file.parent
Parent(p) == Front(StripExt(p))

\* (base_dir / import_path).resolve()
ResolvedBase(importing_file, spec) ==
  LET base_dir == Parent(importing_file)
  IN IF Head(spec) = ".."
       THEN (IF base_dir = << >> THEN << >> ELSE Front(base_dir)) \o Tail(spec)
       ELSE base_dir \o Tail(spec)

\* The paths _resolve_import_path probes, in its order: the five extensions
\* appended, then index.ts and index.tsx inside the path as a directory.
ProbeExts == << ".ts", ".tsx", ".js", ".jsx", ".css" >>

Candidates(resolved) ==
  [i \in 1..Len(ProbeExts) |-> Append(resolved, ProbeExts[i])]
  \o << resolved \o << "index", ".ts" >>, resolved \o << "index", ".tsx" >> >>

None == << "None" >>

\* _resolve_import_path: the first probe that exists, or None.
ResolveImportPath(t, importing_file, spec) ==
  IF IsRelative(spec)
    THEN LET cands == Candidates(ResolvedBase(importing_file, spec))
             hits == {i \in 1..Len(cands) : cands[i] \in DOMAIN t.modules}
         IN IF hits = {}
              THEN None
              ELSE cands[CHOOSE i \in hits : \A j \in hits : i <= j]
    ELSE None

\* Statements.  An item is a name with its alias ("" when there is none):
\* 'a as b' is Item("a", "b").  An export statement is a declaration (its
\* keyword, one item), a list, a wildcard re-export or the default marker;
\* an import statement is grouped ("named"), single ("default"), namespace,
\* or of another form ("other": a side-effect import, a mixed import).
Item(name, alias) == [name |-> name, alias |-> alias]

ExportStmt(k, kw, items) == [k |-> k, kw |-> kw, items |-> items]

ImportStmt(k, items, from_path) == [k |-> k, items |-> items, from |-> from_path]

\* The keywords of the declaration-export pattern.
DeclKeywords == { "interface", "type", "const", "let", "var", "function", "class" }

\* What one export statement adds to the export set.  A list item
\* 'a as b' is cut at ' as ' and its first part, a, is kept.
ExportedBy(stmt) ==
  CASE stmt.k = "decl" ->
         IF stmt.kw \in DeclKeywords THEN { stmt.items[1].name } ELSE {}
    [] stmt.k = "list" -> { stmt.items[i].name : i \in 1..Len(stmt.items) }
    [] stmt.k = "star" -> { "*" }
    [] stmt.k = "default" -> { "default" }
    [] OTHER -> {}

\* The scan without the wildcard sentinel.
ScanFileExportsNoStar(content) ==
  IF content.st # "ok"
    THEN {}
    ELSE UNION { ExportedBy(stmt) : stmt \in content.exports } \ { "*" }

\* _scan_file_exports: a file that cannot be read exports nothing, silently.
ScanFileExports(content) ==
  IF content.st # "ok"
    THEN {}
    ELSE UNION { ExportedBy(stmt) : stmt \in content.exports }

Ref(symbols, from_path) == [symbols |-> symbols, from |-> from_path]

\* _scan_file_imports: the grouped references first, then the single
\* references, then the namespace references; a file that cannot be read has
\* none, silently.  Other import forms match none of the three patterns.
RefsOfKind(content, kind) ==
  LET sel == SelectSeq(content.imports, LAMBDA stmt : stmt.k = kind)
  IN [i \in 1..Len(sel) |->
        Ref([j \in 1..Len(sel[i].items) |-> sel[i].items[j].name], sel[i].from)]

ScanFileImports(content) ==
  IF content.st # "ok"
    THEN << >>
    ELSE RefsOfKind(content, "named") \o RefsOfKind(content, "default")
         \o RefsOfKind(content, "namespace")

\* Tokens that start with '@'.
ScopeToks == { "@types", "@vitejs", "@scope" }

\* The first segment, whatever it starts with.
ExtractFirstSegment(spec) == << spec[1] >>

\* _extract_package_name
ExtractPackageName(spec) ==
  IF Head(spec) \in ScopeToks
    THEN IF Len(spec) >= 2 THEN << spec[1], spec[2] >> ELSE << spec[1] >>
    ELSE << spec[1] >>

\* Files os.walk(src) reaches: under src, no node_modules directory on the way.
UnderSrc(p) == Head(p) = "src" /\ "node_modules" \notin SeqToSet(p)

\* The .ts and .tsx files validate_imports visits, in walk order.
ScannedFiles(t) == SelectSeq(t.walk, LAMBDA p : UnderSrc(p) /\ IsTsFile(p))

\* The table with an entry only for a file that exports something.
BuildFileExportsNonEmpty(t) ==
  [p \in { q \in SeqToSet(ScannedFiles(t)) : ScanFileExports(t.modules[q]) # {} } |->
     ScanFileExports(t.modules[p])]

\* self.file_exports after the first walk: one entry for every scanned file,
\* the empty set for a file that exports nothing.
BuildFileExports(t) ==
  [p \in SeqToSet(ScannedFiles(t)) |-> ScanFileExports(t.modules[p])]

\* The findings of one reference of one file (lines 1187-1214).
SymbolFindings(rel_path, ref, available_exports) ==
  LET bad == SelectSeq(ref.symbols,
                       LAMBDA sym : sym \notin available_exports
                                    /\ "default" \notin available_exports)
  IN [i \in 1..Len(bad) |->
        Finding(RuleImports, "Symbol not exported", << rel_path, << bad[i] >>, ref.from >>)]

\* The reference check without the report of an unresolved path.
RefFindingsUnresolvedSilent(t, file_exports, file_path, ref) ==
  IF ~IsRelative(ref.from) \/ EndsWithCss(ref.from)
    THEN << >>
    ELSE LET resolved_path == ResolveImportPath(t, file_path, ref.from)
         IN IF \/ resolved_path = None
               \/ EndsWithCss(resolved_path)
               \/ resolved_path \notin DOMAIN file_exports
               \/ "*" \in file_exports[resolved_path]
              THEN << >>
              ELSE SymbolFindings(file_path, ref, file_exports[resolved_path])

RefFindings(t, file_exports, file_path, ref) ==
  IF ~IsRelative(ref.from) \/ EndsWithCss(ref.from)
    THEN << >>
    ELSE LET resolved_path == ResolveImportPath(t, file_path, ref.from)
         IN IF resolved_path = None
              THEN << Finding(RuleImports, "Import path not found",
                              << file_path, ref.from >>) >>
              ELSE IF EndsWithCss(resolved_path)
                        \/ resolved_path \notin DOMAIN file_exports
                        \/ "*" \in file_exports[resolved_path]
                THEN << >>
                ELSE SymbolFindings(file_path, ref, file_exports[resolved_path])

FileFindings(t, file_exports, file_path) ==
  LET imports == ScanFileImports(t.modules[file_path])
  IN Flatten([i \in 1..Len(imports) |->
                RefFindings(t, file_exports, file_path, imports[i])])

\* external_imports: a set, so a package is in it once however often it is
\* imported.  A specifier whose first segment is empty names no package.
FilePackages(t, file_path) ==
  LET imports == ScanFileImports(t.modules[file_path])
  IN { ExtractPackageName(imports[i].from) :
         i \in {j \in 1..Len(imports) : ~IsRelative(imports[j].from)} }
     \ { << "" >> }

ExternalImports(t) ==
  UNION { FilePackages(t, p) : p \in SeqToSet(ScannedFiles(t)) }

PackageFinding(package) ==
  Finding(RuleImports, "Package is imported but not in package.json dependencies",
          << package >>)

\* The package check without the comparison against package.json.
MissingPackagesUnchecked(t, installed_packages) == ExternalImports(t)

\* The packages that get a finding (lines 1224-1227).
MissingPackages(t, installed_packages) == ExternalImports(t) \ installed_packages

\* The orders in which a set can be iterated.
Orderings(S) ==
  { s \in [1..Cardinality(S) -> S] : \A i, j \in 1..Cardinality(S) : s[i] = s[j] => i = j }

\* import_errors up to the package check, in walk order.
WalkFindings(t, file_exports) ==
  LET files == ScannedFiles(t)
  IN Flatten([i \in 1..Len(files) |-> FileFindings(t, file_exports, files[i])])

\* ------------------------------------------------------------ state
VARIABLES
  argc,               \* len(sys.argv)
  erd,                \* the ERD document: [st, auth]
  openapi,            \* the OpenAPI document: its state
  tree,               \* the artifact tree
  order,              \* the order in which the rules are called
  pc,                 \* where the run is
  idx,                \* the next rule of order
  errors,             \* self.errors
  warnings,           \* self.warnings
  validation_results, \* self.validation_results
  file_exports,       \* self.file_exports
  installed_packages, \* self.installed_packages
  auth_enabled,       \* self.auth_enabled
  success,            \* what validate() returned
  exit_status,        \* the process exit status (NoExit while running)
  output,             \* the report sections printed so far
  run,                \* the number of this run
  prev,               \* the tree and the findings of the run before an edit
  edit,               \* the edit made before this run
  localStorage,       \* the browser's localStorage: key -> stored text or Null
  user,               \* AuthProvider: the user state
  request,            \* the config the request interceptor returned last
  requests,           \* the number of requests sent
  totalItems,         \* usePagination: the totalItems argument
  itemsPerPage,       \* usePagination: the itemsPerPage argument
  currentPage,        \* usePagination: the currentPage state
  calls,              \* usePagination: the number of navigation calls
  users,              \* UserList: the users state
  loading,            \* UserList: the loading state
  error,              \* UserList: the error state
  server,             \* the ids of the users the server holds
  inflight,           \* UserList: the delete requests awaiting their response
  deleted             \* the ids whose delete request completed successfully

inputVars == << argc, erd, openapi, tree, order >>
objVars == << errors, warnings, validation_results, file_exports,
              installed_packages, auth_enabled >>
authVars == << localStorage, user, request, requests >>
pageVars == << totalItems, itemsPerPage, currentPage, calls >>
listVars == << users, loading, error, server, inflight, deleted >>
appVars == << authVars, pageVars, listVars >>
validatorVars == << argc, erd, openapi, tree, order, pc, idx, errors, warnings,
                    validation_results, file_exports, installed_packages,
                    auth_enabled, success, exit_status, output, run, prev, edit >>
vars == << validatorVars, appVars >>

NoEdit == [k |-> "none", arg |-> << >>]

\* Stage5Validator.__init__ and the start of a process.
Fresh ==
  /\ pc = "main"
  /\ idx = 1
  /\ errors = << >>
  /\ warnings = << >>
  /\ validation_results = << >>
  /\ file_exports = [p \in {} |-> {}]
  /\ installed_packages = {}
  /\ auth_enabled = FALSE
  /\ success = FALSE
  /\ exit_status = << >>
  /\ output = << >>

\* ------------------------------------------------------------ operations
Say(sec, a, b) == [sec |-> sec, a |-> a, b |-> b]

\* sys.exit(code)
ExitWith(code) ==
  /\ exit_status' = << code >>
  /\ pc' = "done"

\* main(): the usage check, the two os.path.exists checks, then the
\* construction of the validator (Stage5Validator.__init__).
Main ==
  /\ pc = "main"
  /\ IF argc # 3
       THEN /\ output' = Append(output, Say("usage", 0, 0))
            /\ ExitWith(1)
       ELSE IF erd.st = "missing"
         THEN /\ output' = Append(output, Say("ERD file not found", 0, 0))
              /\ ExitWith(1)
         ELSE IF openapi = "missing"
           THEN /\ output' = Append(output, Say("OpenAPI file not found", 0, 0))
                /\ ExitWith(1)
           ELSE /\ pc' = "load"
                /\ UNCHANGED << output, exit_status >>
  /\ UNCHANGED << inputVars, objVars, idx, success, run, prev, edit, appVars >>

\* load_inputs(): any exception while opening or parsing either document is
\* caught, recorded in self.errors, and validate() returns False at once.
LoadError == Finding("", "Error loading inputs", << >>)

\* A loader that reads the first document only.
LoadOkErdOnly(e, o) == e.st = "ok"

LoadOk(e, o) == e.st = "ok" /\ o = "ok"

LoadInputs ==
  /\ pc = "load"
  /\ auth_enabled' = (IF erd.st = "ok" THEN erd.auth ELSE auth_enabled)
  /\ IF LoadOk(erd, openapi)
       THEN /\ pc' = "rules"
            /\ idx' = 1
            /\ UNCHANGED << errors, success >>
       ELSE /\ errors' = Append(errors, LoadError)
            /\ success' = FALSE
            /\ pc' = "exit"
            /\ UNCHANGED idx
  /\ UNCHANGED << inputVars, warnings, validation_results, file_exports,
                  installed_packages, exit_status, output, run, prev, edit,
                  appVars >>

\* A rule is called when it is the next one of the order.
Called(rule) ==
  /\ pc = "rules"
  /\ idx <= Len(order)
  /\ order[idx] = rule

\* A rule that creates the src directory when it stores its outcome.
RecordCreatingSrc(rule, outcome) ==
  /\ errors' = errors \o outcome.errs
  /\ warnings' = warnings \o outcome.warns
  /\ validation_results' =
       Append(validation_results, [name |-> rule, result |-> outcome.result])
  /\ idx' = idx + 1
  /\ tree' = [tree EXCEPT !.root = TRUE, !.dirs = @ \cup { SrcDir }]
  /\ UNCHANGED << argc, erd, openapi, order, pc, auth_enabled, success,
                  exit_status, output, run, prev, edit, appVars >>

\* What every rule does with its outcome: the errors and warnings are
\* appended, the result is stored under the validation name.
Record(rule, outcome) ==
  /\ errors' = errors \o outcome.errs
  /\ warnings' = warnings \o outcome.warns
  /\ validation_results' =
       Append(validation_results, [name |-> rule, result |-> outcome.result])
  /\ idx' = idx + 1
  /\ UNCHANGED << inputVars, pc, auth_enabled, success, exit_status, output,
                  run, prev, edit, appVars >>

ValidateAppComponent ==
  /\ Called(RuleApp)
  /\ Record(RuleApp, AppOutcome(tree, auth_enabled))
  /\ UNCHANGED << file_exports, installed_packages >>

ValidateMainEntry ==
  /\ Called(RuleMain)
  /\ Record(RuleMain, MainOutcome(tree))
  /\ UNCHANGED << file_exports, installed_packages >>

ValidateAppCss ==
  /\ Called(RuleAppCss)
  /\ Record(RuleAppCss, AppCssOutcome(tree))
  /\ UNCHANGED << file_exports, installed_packages >>

ValidateIndexCss ==
  /\ Called(RuleIndexCss)
  /\ Record(RuleIndexCss, IndexCssOutcome(tree))
  /\ UNCHANGED << file_exports, installed_packages >>

ValidateAuthContext ==
  /\ Called(RuleAuth)
  /\ Record(RuleAuth, AuthOutcome(tree, auth_enabled))
  /\ UNCHANGED << file_exports, installed_packages >>

ValidateContextBarrelExports ==
  /\ Called(RuleCtxBarrel)
  /\ Record(RuleCtxBarrel, CtxBarrelOutcome(tree, auth_enabled))
  /\ UNCHANGED << file_exports, installed_packages >>

ValidateHtmlTemplate ==
  /\ Called(RuleHtml)
  /\ Record(RuleHtml, HtmlOutcome(tree))
  /\ UNCHANGED << file_exports, installed_packages >>

ValidateHtmlLocation ==
  /\ Called(RuleHtmlLoc)
  /\ Record(RuleHtmlLoc, HtmlLocOutcome(tree))
  /\ UNCHANGED << file_exports, installed_packages >>

ValidatePackageJson ==
  /\ Called(RulePkg)
  /\ Record(RulePkg, PkgOutcome(tree))
  /\ installed_packages' = PkgInstalled(tree, installed_packages)
  /\ UNCHANGED file_exports

ValidateNoPreviousModifications ==
  /\ Called(RuleNoPrev)
  /\ Record(RuleNoPrev, NoPrevOutcome(tree))
  /\ UNCHANGED << file_exports, installed_packages >>

ValidateRouteViewMatching ==
  /\ Called(RuleRouteView)
  /\ Record(RuleRouteView, RouteViewOutcome(tree))
  /\ UNCHANGED << file_exports, installed_packages >>

ValidateStorageExports ==
  /\ Called(RuleStorage)
  /\ Record(RuleStorage, StorageOutcome(tree))
  /\ UNCHANGED << file_exports, installed_packages >>

ValidateComponentBarrelExports ==
  /\ Called(RuleCompBarrel)
  /\ Record(RuleCompBarrel, CompBarrelOutcome(tree))
  /\ UNCHANGED << file_exports, installed_packages >>

\* validate_imports: nothing to do without src; otherwise both walks, then
\* one finding per imported package that is not installed, in the iteration
\* order of the set external_imports, which the language does not fix.
ImportsOutcome(t, exports, package_order) ==
  Collected(WalkFindings(t, exports)
            \o [i \in 1..Len(package_order) |-> PackageFinding(package_order[i])],
            << >>)

ValidateImports ==
  /\ Called(RuleImports)
  /\ IF SrcDir \notin tree.dirs
       THEN /\ Record(RuleImports, Passed)
            /\ UNCHANGED file_exports
       ELSE /\ file_exports' = BuildFileExports(tree)
            /\ \E package_order \in Orderings(MissingPackages(tree, installed_packages)) :
                 Record(RuleImports,
                        ImportsOutcome(tree, BuildFileExports(tree), package_order))
  /\ UNCHANGED installed_packages

\* The end of validate(): the summary, the error details and the warnings
\* when there are any, the statistics, and the final result.
Results(vr, b) == SelectSeq(vr, LAMBDA r : r.result = b)

VerdictAlsoOnWarnings(errs, warns) == Len(errs) = 0 /\ Len(warns) = 0

Verdict(errs, warns) == ~(Len(errs) > 0)

ReportLines(vr, errs, warns, t, exports, installed, auth) ==
  << Say("VALIDATION SUMMARY", Len(Results(vr, TRUE)), Len(Results(vr, FALSE))) >>
  \o (IF errs # << >> THEN << Say("ERROR DETAILS", Len(errs), 0) >> ELSE << >>)
  \o (IF warns # << >> THEN << Say("WARNINGS", Len(warns), 0) >> ELSE << >>)
  \o << Say("VALIDATION STATISTICS",
            IF SrcDir \in t.dirs THEN Len(ScannedFiles(t)) ELSE 0,
            Cardinality(DOMAIN exports)),
        Say("External packages detected", Cardinality(installed), 0) >>
  \o (IF Len(errs) > 0
        THEN << Say("VALIDATION FAILED", Len(errs), Len(warns)) >>
        ELSE << Say("ALL VALIDATIONS PASSED", 0, 0) >>
             \o (IF Len(warns) > 0
                   THEN << Say("Note: warning(s) found", Len(warns), 0) >>
                   ELSE << >>)
             \o << Say("Application shell integrated successfully", 0, 0) >>
             \o (IF auth
                   THEN << Say("Authentication context enabled and configured", 0, 0) >>
                   ELSE << >>)
             \o << Say("All imports validated against package.json", 0, 0) >>)

Report ==
  /\ pc = "rules"
  /\ idx > Len(order)
  /\ output' = output \o ReportLines(validation_results, errors, warnings, tree,
                                     file_exports, installed_packages, auth_enabled)
  /\ success' = Verdict(errors, warnings)
  /\ pc' = "exit"
  /\ UNCHANGED << inputVars, objVars, idx, exit_status, run, prev, edit, appVars >>

\* sys.exit(0 if success else 1)
ExitAlwaysZero(ok) == 0

ExitCode(ok) == IF ok THEN 0 ELSE 1

Exit ==
  /\ pc = "exit"
  /\ ExitWith(ExitCode(success))
  /\ UNCHANGED << inputVars, objVars, idx, success, output, run, prev, edit, appVars >>

\* validate() ran to its final result (it did not return at load_inputs).
RunCompleted ==
  /\ pc \in { "exit", "done" }
  /\ \E i \in 1..Len(output) : output[i].sec = "VALIDATION SUMMARY"

Validate ==
  \/ Main
  \/ LoadInputs
  \/ ValidateAppComponent
  \/ ValidateMainEntry
  \/ ValidateAppCss
  \/ ValidateIndexCss
  \/ ValidateAuthContext
  \/ ValidateContextBarrelExports
  \/ ValidateHtmlTemplate
  \/ ValidateHtmlLocation
  \/ ValidatePackageJson
  \/ ValidateNoPreviousModifications
  \/ ValidateRouteViewMatching
  \/ ValidateStorageExports
  \/ ValidateComponentBarrelExports
  \/ ValidateImports
  \/ Report
  \/ Exit

\* ------------------------------------------------------------ inputs
\* The schema documents.  The ERD is missing, unreadable, invalid (not JSON,
\* or JSON of the wrong shape) or ok with business_logic.authentication.enabled.
Erd(st, auth) == [st |-> st, auth |-> auth]

GoodErds == { Erd("ok", TRUE), Erd("ok", FALSE) }

BadErds == { Erd("missing", FALSE), Erd("unreadable", FALSE), Erd("invalid", FALSE) }

OpenApis == { "missing", "invalid", "ok" }

\* The command lines of a run that ends before any rule: a wrong argument
\* count, or a schema document that is missing or cannot be loaded.
FatalInputs ==
  { << 2, Erd("ok", TRUE), "ok" >> }
  \cup { << 3, e, "ok" >> : e \in BadErds }
  \cup { << 3, e, o >> : e \in GoodErds, o \in OpenApis \ {"ok"} }

GoodInputs == { << 3, e, "ok" >> : e \in GoodErds }

\* Module files.
Content(st, exports, imports) == [st |-> st, exports |-> exports, imports |-> imports]

ModA == << "src", "a", ".ts" >>
ModB == << "src", "b", ".ts" >>
ModBJs == << "src", "b", ".js" >>
ModBIndex == << "src", "b", "index", ".ts" >>
ModC == << "src", "c", ".tsx" >>

SpecB == << ".", "b" >>
SpecReact == << "react" >>
SpecReactDomClient == << "react-dom", "client" >>
SpecLeftPad == << "left-pad" >>
SpecTypesReact == << "@types", "react", "jsx-runtime" >>

Named(names, from_path) ==
  ImportStmt("named", [i \in 1..Len(names) |-> Item(names[i], "")], from_path)

Default(name, from_path) == ImportStmt("default", << Item(name, "") >>, from_path)

Namespace(name, from_path) == ImportStmt("namespace", << Item(name, "") >>, from_path)

Decl(kw, name) == ExportStmt("decl", kw, << Item(name, "") >>)

\* A well-formed pair of modules: a.ts imports Foo from ./b and React.
GoodModules ==
  (ModA :> Content("ok", {}, << Named(<< "Foo" >>, SpecB), Default("React", SpecReact) >>))
  @@ (ModB :> Content("ok", { Decl("const", "Foo") }, << >>))

\* A tree in which every rule passes without a warning.
GoodTree ==
  [ root |-> TRUE,
    dirs |-> Dirs,
    fstat |-> [f \in FixedFiles |-> "ok"],
    markers |-> [f \in FixedFiles |-> AllMarkers(f)],
    manifest |-> [json |-> TRUE, deps |-> BaselineDeps,
                  scripts |-> SeqToSet(RequiredScripts)],
    views |-> << Name1("Home"), Name1("NotFound"), Name2("User", "View") >>,
    routeKeys |-> { Name1("HOME"), Name1("USER"), Name1("NOT_FOUND") },
    routerImports |-> { Name1("Home"), Name1("NotFound"), Name2("User", "View") },
    routerRendered |-> { Name1("Home"), Name1("NotFound"), Name2("User", "View") },
    components |-> << Name1("Layout"), Name1("Navbar"), Name2("User", "List") >>,
    barrel |-> { Name2("User", "List") },
    modules |-> GoodModules,
    walk |-> << ModA, ModB >> ]

\* The same tree with both advisory markers missing: two warnings, no error.
WarnTree ==
  [GoodTree EXCEPT
     !.markers[MainFile] = @ \ SeqToSet(MainWarnMarkers),
     !.markers[IndexCssFile] = @ \ SeqToSet(IndexCssWarnMarkers)]

\* A tree root with nothing in it.
EmptyTree ==
  [ root |-> TRUE,
    dirs |-> {},
    fstat |-> [f \in FixedFiles |-> "absent"],
    markers |-> [f \in FixedFiles |-> {}],
    manifest |-> [json |-> FALSE, deps |-> {}, scripts |-> {}],
    views |-> << >>,
    routeKeys |-> {},
    routerImports |-> {},
    routerRendered |-> {},
    components |-> << >>,
    barrel |-> {},
    modules |-> [p \in {} |-> Content("ok", {}, << >>)],
    walk |-> << >> ]

\* No tree root at all: self.base_path names no directory.
MissingRoot == [EmptyTree EXCEPT !.root = FALSE]

Backgrounds == { GoodTree, WarnTree, EmptyTree }

\* The states one fixed file can be in: absent, unreadable, or present with
\* at most MaxMissing of its markers missing (for package.json: not JSON, or
\* at most MaxMissing baseline entries and scripts missing).
FewOf(S) == { M \in SUBSET S : Cardinality(M) <= MaxMissing }

FileState(st, markers, manifest) == [st |-> st, markers |-> markers, manifest |-> manifest]

GoodManifest == GoodTree.manifest

Manifests ==
  { [json |-> FALSE, deps |-> {}, scripts |-> {}] }
  \cup { [json |-> TRUE, deps |-> BaselineDeps \ D, scripts |-> SeqToSet(RequiredScripts) \ S] :
           D \in FewOf(BaselineDeps),
           S \in { X \in SUBSET SeqToSet(RequiredScripts) : Cardinality(X) <= 1 } }

FileStates(f) ==
  { FileState("absent", {}, GoodManifest), FileState("unreadable", {}, GoodManifest) }
  \cup (IF f = PkgFile
          THEN { FileState("ok", {}, m) : m \in Manifests }
          ELSE { FileState("ok", AllMarkers(f) \ M, GoodManifest) : M \in FewOf(AllMarkers(f)) })

\* Background tree bg with fixed file f put in state fs.
WithFile(bg, f, fs) ==
  [bg EXCEPT
     !.fstat[f] = fs.st,
     !.markers[f] = IF bg.fstat[f] = "ok" /\ fs.st = "ok"
                      THEN fs.markers \cap bg.markers[f] ELSE fs.markers,
     !.manifest = IF f = PkgFile THEN fs.manifest ELSE @,
     !.dirs = IF fs.st = "absent" THEN @ ELSE @ \cup DirsOf(f)]

PresenceTrees ==
  UNION { { WithFile(bg, f, fs) : bg \in Backgrounds, fs \in FileStates(f) } :
            f \in FixedFiles }

\* ------------------------------------------------------------ storage and API client
\* Stored texts are token sequences: JSON.stringify of the string t is
\* << "\"", t, "\"" >>.  A missing key is a key outside DOMAIN localStorage
\* (getItem returns null for it).
JsonStringify(value) == << "\"", value, "\"" >>

IsJsonString(text) == Len(text) = 3 /\ text[1] = "\"" /\ text[3] = "\""

\* storage.get: the parsed value, or null when the key is missing or the
\* text does not parse.  The result is << >> for null, << value >> otherwise.
StorageGet(ls, key) ==
  IF key \in DOMAIN ls /\ IsJsonString(ls[key]) THEN << ls[key][2] >> ELSE << >>

\* storage.set: setItem of the JSON text; a setItem that throws (the quota is
\* exceeded) is caught and leaves the storage as it was.
StorageSet(ls, key, value, stored) ==
  IF stored
    THEN [k \in DOMAIN ls \cup { key } |-> IF k = key THEN JsonStringify(value) ELSE ls[k]]
    ELSE ls

\* storage.remove
StorageRemove(ls, key) == [k \in DOMAIN ls \ { key } |-> ls[k]]

AuthTokenKey == "authToken"

\* The key the request interceptor reads.
InterceptorKey == "token"

\* tokenStorage.getAuthToken
GetAuthToken(ls) == StorageGet(ls, AuthTokenKey)

\* api.interceptors.request: the Authorization header the interceptor puts
\* on the config, << >> when it puts none.
\* const token = localStorage.getItem('token'); if (token) ...
Intercept(ls) ==
  IF InterceptorKey \in DOMAIN ls /\ ls[InterceptorKey] # << >>
    THEN << "Bearer" >> \o ls[InterceptorKey]
    ELSE << >>

AuthStart ==
  /\ localStorage = [k \in {} |-> << >>]
  /\ user = << >>
  /\ request = [Authorization |-> << >>]
  /\ requests = 0

\* ------------------------------------------------------------ usePagination
Min(a, b) == IF a <= b THEN a ELSE b

Max(a, b) == IF a >= b THEN a ELSE b

\* Math.ceil(totalItems / itemsPerPage) for totalItems >= 0, itemsPerPage >= 1
TotalPages(items, perPage) == (items + perPage - 1) \div perPage

\* useState(initialPage) with initialPage = 1
PageStart(items, perPage) ==
  /\ totalItems = items
  /\ itemsPerPage = perPage
  /\ currentPage = 1
  /\ calls = 0

\* ------------------------------------------------------------ UserList
\* The component mounts: users is empty, loading is true, no error; the
\* server holds the given users.
ListStart(ids) ==
  /\ users = << >>
  /\ loading = TRUE
  /\ error = << >>
  /\ server = ids
  /\ inflight = << >>
  /\ deleted = {}

\* The application parts are idle while the validator runs.
AppStart == AuthStart /\ PageStart(1, 1) /\ ListStart({})

\* ------------------------------------------------------------ specifications
\* The start of a validator process on the given inputs.
StartRun(inputs, t) ==
  /\ argc = inputs[1]
  /\ erd = inputs[2]
  /\ openapi = inputs[3]
  /\ tree = t
  /\ order = ValidateOrder
  /\ Fresh
  /\ run = 1
  /\ prev = [tree |-> EmptyTree, errors |-> << >>, warnings |-> << >>,
             results |-> << >>]
  /\ edit = NoEdit

\* A first run of the validator on the given inputs.
FirstRun(inputs, t) == StartRun(inputs, t) /\ AppStart

\* The presence rules and the verdict: every fixed file in every state, on
\* each background, with authentication enabled and disabled; and the runs
\* that end before any rule.
Init ==
  \/ \E inputs \in GoodInputs, t \in PresenceTrees \cup { MissingRoot } :
       FirstRun(inputs, t)
  \/ \E inputs \in FatalInputs : FirstRun(inputs, GoodTree)

Next == Validate

Spec == Init /\ [][Next]_vars

\* ------------------------------------------------------------ edits
\* Step 11 of the stage: when the validator fails, the files are fixed and
\* the validator is run again, as a new process on the edited tree.
Restart ==
  /\ pc' = "main"
  /\ idx' = 1
  /\ errors' = << >>
  /\ warnings' = << >>
  /\ validation_results' = << >>
  /\ file_exports' = [p \in {} |-> {}]
  /\ installed_packages' = {}
  /\ auth_enabled' = FALSE
  /\ success' = FALSE
  /\ exit_status' = << >>
  /\ output' = << >>

\* The validator is started again, on tree t with the rules called in order
\* o; what the run before found is kept for comparison.
RerunWith(t, o, e) ==
  /\ pc = "done"
  /\ run < MaxRuns
  /\ RunCompleted
  /\ tree' = t
  /\ order' = o
  /\ prev' = [tree |-> tree, errors |-> errors, warnings |-> warnings,
              results |-> validation_results]
  /\ edit' = e
  /\ run' = run + 1
  /\ Restart
  /\ UNCHANGED << argc, erd, openapi, appVars >>

Rerun(t, e) == RerunWith(t, order, e)

\* A package reported as not installed is added to the manifest.
AddToManifest ==
  \E package \in { e.args[1] : e \in { x \in SeqToSet(errors) :
                                         x.kind = PackageFinding(<< >>).kind } } :
    /\ PkgParsed(tree)
    /\ Rerun([tree EXCEPT !.manifest.deps = @ \cup { package }],
             [k |-> "add_package", arg |-> package])

\* ------------------------------------------------------------ import trees
SpecBCss == << ".", "b", ".css" >>

\* The import statements a.ts is made of.
ImportMenu ==
  << Named(<< "Foo" >>, SpecB),
     ImportStmt("named", << Item("Foo", "F"), Item("Baz", "") >>, SpecB),
     Default("Foo", SpecB),
     Namespace("NS", SpecB),
     Default("pad", SpecLeftPad),
     Named(<< "createRoot" >>, SpecReactDomClient),
     Named(<< "JSX" >>, SpecTypesReact),
     Named(<< "styles" >>, SpecBCss) >>

MenuPicks ==
  { s \in UNION { [1..n -> 1..Len(ImportMenu)] : n \in 0..MaxImports } :
      \A i \in 1..Len(s) - 1 : s[i] <= s[i + 1] }

ImportLists == { [i \in 1..Len(s) |-> ImportMenu[s[i]]] : s \in MenuPicks }

\* What b.ts can hold.
BContents ==
  { Content("ok", {}, << >>),
    Content("ok", { Decl("const", "Foo") }, << >>),
    Content("ok", { ExportStmt("default", "", << >>) }, << >>),
    Content("ok", { ExportStmt("star", "", << >>) }, << >>),
    Content("ok", { ExportStmt("list", "", << Item("Qux", "Foo") >>) }, << >>),
    Content("ok", { Decl("function", "Foo"), ExportStmt("default", "", << >>) }, << >>),
    Content("unreadable", { Decl("const", "Foo") }, << >>) }

StarOnly == Content("ok", { ExportStmt("star", "", << >>) }, << >>)

\* The files './b' can resolve to, with their contents.
TargetSetups ==
  { [p \in {} |-> StarOnly] }
  \cup { (ModB :> c) : c \in BContents }
  \cup { (ModBJs :> StarOnly), (ModBIndex :> StarOnly),
         (ModB :> Content("ok", { Decl("const", "Foo") }, << >>)) @@ (ModBIndex :> StarOnly),
         (ModBJs :> StarOnly)
           @@ (ModBIndex :> Content("ok", { ExportStmt("default", "", << >>) }, << >>)) }

\* c.tsx, a second importer, when it exists.
CSetups ==
  { [p \in {} |-> StarOnly],
    (ModC :> Content("ok", {}, << Default("pad", SpecLeftPad),
                                  ImportStmt("other", << >>, SpecBCss) >>)),
    (ModC :> Content("ok", {}, << Named(<< "Foo" >>, SpecB) >>)) }

\* a.ts: readable with a list of imports, or unreadable.
ASetups ==
  { (ModA :> Content("ok", {}, imports)) : imports \in ImportLists }
  \cup { (ModA :> Content("unreadable", {}, << Named(<< "Foo" >>, SpecB) >>)) }

\* package.json: the baseline, the baseline with left-pad, the baseline
\* without react-dom and @types/react, or no package.json at all.
ImportManifests ==
  { [st |-> "ok", deps |-> BaselineDeps],
    [st |-> "ok", deps |-> BaselineDeps \cup { Pkg("left-pad") }],
    [st |-> "ok", deps |-> BaselineDeps \ { Pkg("react-dom"), Scoped("@types", "react") }],
    [st |-> "absent", deps |-> {}] }

ModBTsx == << "src", "b", ".tsx" >>
ModBIndexTsx == << "src", "b", "index", ".tsx" >>

ModuleOrder == << ModA, ModB, ModBTsx, ModBJs, ModBIndex, ModBIndexTsx, ModC >>

ImportTree(mods, m) ==
  [GoodTree EXCEPT
     !.modules = mods,
     !.walk = SelectSeq(ModuleOrder, LAMBDA p : p \in DOMAIN mods),
     !.fstat[PkgFile] = m.st,
     !.manifest.deps = m.deps]

ImportTrees ==
  { ImportTree(a @@ b @@ c, m) :
      a \in ASetups, b \in TargetSetups, c \in CSetups, m \in ImportManifests }

\* The import rule: a.ts with every list of imports, against every target
\* of './b', a second importer and every manifest; a reported package can
\* be added to the manifest and the validator run again.
InitImports ==
  \/ \E inputs \in { << 3, Erd("ok", FALSE), "ok" >> }, t \in ImportTrees :
       FirstRun(inputs, t)
  \/ \E inputs \in FatalInputs : FirstRun(inputs, GoodTree)

NextImports == Validate \/ AddToManifest

SpecImports == InitImports /\ [][NextImports]_vars

\* ------------------------------------------------------------ wiring trees
OrderView == Name2("Order", "View")
UserView == Name2("User", "View")

\* A view is wired: its route constant, its import and its Route are added.
AddRoute ==
  \E view_name \in { e.args[1] : e \in { x \in SeqToSet(ErrorsOfRule(errors, RuleRouteView)) :
                                            x.args # << >> } } :
    /\ Readable(tree, RoutesFile)
    /\ Readable(tree, RouterFile)
    /\ Rerun([tree EXCEPT !.routeKeys = @ \cup { RouteConstant(view_name) },
                          !.routerImports = @ \cup { view_name },
                          !.routerRendered = @ \cup { view_name }],
             [k |-> "add_route", arg |-> view_name])

\* The content of one readable file is replaced by text that cannot be
\* decoded: the file still exists, reading it raises.
Corruptible == { RoutesFile, RouterFile, CompIndexFile, AppFile, PkgFile }

Corrupt ==
  \E f \in Corruptible :
    /\ Readable(tree, f)
    /\ Rerun([tree EXCEPT !.fstat[f] = "unreadable"],
             [k |-> "corrupt", arg |-> << f >>])

CorruptModule ==
  \E p \in DOMAIN tree.modules :
    /\ tree.modules[p].st = "ok"
    /\ Rerun([tree EXCEPT !.modules[p].st = "unreadable"],
             [k |-> "corrupt", arg |-> p])

\* The views beside Home and NotFound, the route keys beside HOME, USER and
\* NOT_FOUND, whether OrderView is imported and rendered in the router, and
\* the states of routes.ts and router/index.tsx.
ViewLists ==
  { << Name1("Home"), Name1("NotFound"), UserView >>,
    << Name1("Home"), OrderView, Name1("NotFound") >>,
    << OrderView, Name1("Home"), Name1("NotFound"), UserView >> }

ExtraKeys == { Name1("ORDER"), Name2("RE", "ORDER") }

WiringFileStates ==
  { << "ok", "ok" >>, << "unreadable", "ok" >>, << "ok", "unreadable" >>,
    << "absent", "ok" >>, << "ok", "absent" >> }

WiringTree(views, keys, imported, rendered, st, barrel) ==
  [GoodTree EXCEPT
     !.views = views,
     !.routeKeys = @ \cup keys,
     !.routerImports = @ \cup imported,
     !.routerRendered = @ \cup rendered,
     !.fstat[RoutesFile] = st[1],
     !.fstat[RouterFile] = st[2],
     !.barrel = barrel]

\* What components/index.ts re-exports: nothing, UserList, or UserListItem
\* (from a sub-directory) without UserList.
BarrelContents == { {}, GoodTree.barrel, { << "User", "List", "Item" >> } }

WiringTrees ==
  { WiringTree(views, keys, imported, rendered, st, barrel) :
      views \in ViewLists, keys \in SUBSET ExtraKeys,
      imported \in SUBSET { OrderView }, rendered \in SUBSET { OrderView },
      st \in WiringFileStates, barrel \in BarrelContents }

\* The wiring rules: views against the route table and the router; a view
\* can be wired and a file corrupted, and the validator run again.
InitWiring ==
  \/ \E inputs \in { << 3, Erd("ok", FALSE), "ok" >> }, t \in WiringTrees :
       FirstRun(inputs, t)
  \/ \E inputs \in FatalInputs : FirstRun(inputs, GoodTree)

NextWiring == Validate \/ AddRoute \/ Corrupt \/ CorruptModule

SpecWiring == InitWiring /\ [][NextWiring]_vars

\* ------------------------------------------------------------ repeated runs
\* The second process on the same tree and the same documents.
RunAgain == Rerun(tree, [k |-> "run_again", arg |-> << >>])

\* The rule calls of validate() in another order: the order of the code, the
\* order with validate_imports moved before validate_package_json, and the
\* reverse order.
ImportsBeforeManifest ==
  << RuleApp, RuleMain, RuleAppCss, RuleIndexCss, RuleAuth, RuleCtxBarrel,
     RuleHtml, RuleHtmlLoc, RuleImports, RulePkg, RuleNoPrev, RuleRouteView,
     RuleStorage, RuleCompBarrel >>

Reversed(s) == [i \in 1..Len(s) |-> s[Len(s) + 1 - i]]

RuleOrders == { ValidateOrder, ImportsBeforeManifest, Reversed(ValidateOrder) }

Reorder ==
  \E o \in RuleOrders \ { order } :
    RerunWith(tree, o, [k |-> "reorder", arg |-> << >>])

\* The trees of the import rule in which './b' has no target.
RerunTrees ==
  { ImportTree(a @@ c, m) : a \in ASetups, c \in CSetups, m \in ImportManifests }
  \cup { WarnTree }

InitRerun ==
  \/ \E inputs \in GoodInputs, t \in RerunTrees : FirstRun(inputs, t)
  \/ \E inputs \in FatalInputs : FirstRun(inputs, GoodTree)

NextRerun == Validate \/ RunAgain \/ Reorder

SpecRerun == InitRerun /\ [][NextRerun]_vars

\* ------------------------------------------------------------ resolver trees
SpecBWithJs == << ".", "b", ".js" >>
SpecScopeOnly == << "@scope" >>

\* The one import of a.ts: a relative specifier without and with an
\* extension, or a bare specifier, plain or scoped, with or without a
\* sub-path.
ResolveMenu ==
  { Named(<< "Foo" >>, SpecB), Named(<< "Foo" >>, SpecBWithJs),
    Default("pad", SpecLeftPad), Named(<< "createRoot" >>, SpecReactDomClient),
    Named(<< "JSX" >>, SpecTypesReact), Default("scope", SpecScopeOnly) }

\* Each file a probe can hit is absent, exports Foo, or exports nothing.
ProbeTargets == { ModB, ModBTsx, ModBJs, ModBIndex, ModBIndexTsx }

WithFoo == Content("ok", { Decl("const", "Foo") }, << >>)
WithoutFoo == Content("ok", {}, << >>)

ProbeSetups ==
  UNION { [present -> { WithFoo, WithoutFoo }] : present \in SUBSET ProbeTargets }

ResolveTrees ==
  { ImportTree((ModA :> Content("ok", {}, << stmt >>)) @@ targets, m) :
      stmt \in ResolveMenu, targets \in ProbeSetups, m \in ImportManifests }

\* The resolver and the package-name extraction, applied by the import rule
\* to one import against every combination of probe targets.
InitResolve ==
  \/ \E inputs \in { << 3, Erd("ok", FALSE), "ok" >> }, t \in ResolveTrees :
       FirstRun(inputs, t)
  \/ \E inputs \in FatalInputs : FirstRun(inputs, GoodTree)

NextResolve == Validate

SpecResolve == InitResolve /\ [][NextResolve]_vars

\* ------------------------------------------------------------ API client and auth context
Tokens == { "t1", "t2" }

StorageKeys == { AuthTokenKey, InterceptorKey }

\* The validator does not run while the application parts do.
ValidatorIdle == StartRun(<< 3, Erd("ok", FALSE), "ok" >>, GoodTree)

\* tokenStorage.setAuthToken(token)
SetAuthToken ==
  \E token \in Tokens, stored \in BOOLEAN :
    /\ localStorage' = StorageSet(localStorage, AuthTokenKey, token, stored)
    /\ UNCHANGED << user, request, requests, pageVars, listVars, validatorVars >>

\* tokenStorage.removeAuthToken()
RemoveAuthToken ==
  /\ localStorage' = StorageRemove(localStorage, AuthTokenKey)
  /\ UNCHANGED << user, request, requests, pageVars, listVars, validatorVars >>

\* storage.set(key, value), called directly on the exported storage object.
StorageSetCall ==
  \E key \in StorageKeys, value \in Tokens, stored \in BOOLEAN :
    /\ localStorage' = StorageSet(localStorage, key, value, stored)
    /\ UNCHANGED << user, request, requests, pageVars, listVars, validatorVars >>

\* storage.remove(key), called directly on the exported storage object.
StorageRemoveCall ==
  \E key \in StorageKeys :
    /\ localStorage' = StorageRemove(localStorage, key)
    /\ UNCHANGED << user, request, requests, pageVars, listVars, validatorVars >>

\* AuthProvider.login: the placeholder user is set; no token is stored.
Login ==
  \E email \in { "a@x" } :
    /\ user' = << [id |-> 1, email |-> email] >>
    /\ UNCHANGED << localStorage, request, requests, pageVars, listVars,
                    validatorVars >>

\* AuthProvider.logout
Logout ==
  /\ localStorage' = StorageRemove(localStorage, AuthTokenKey)
  /\ user' = << >>
  /\ UNCHANGED << request, requests, pageVars, listVars, validatorVars >>

\* A request goes out through the api instance: the request interceptor
\* returns its config.
ApiRequest ==
  /\ requests < MaxRequests
  /\ request' = [Authorization |-> Intercept(localStorage)]
  /\ requests' = requests + 1
  /\ UNCHANGED << localStorage, user, pageVars, listVars, validatorVars >>

InitAuth == ValidatorIdle /\ AuthStart /\ PageStart(1, 1) /\ ListStart({})

NextAuth ==
  \/ SetAuthToken
  \/ RemoveAuthToken
  \/ StorageSetCall
  \/ StorageRemoveCall
  \/ Login
  \/ Logout
  \/ ApiRequest

SpecAuth == InitAuth /\ [][NextAuth]_vars

\* ------------------------------------------------------------ pagination
\* goToPage(page): setCurrentPage(Math.max(1, Math.min(page, totalPages)))
GoToPage ==
  \E page \in -1..(MaxItems + 1) :
    /\ calls < MaxCalls
    /\ currentPage' = Max(1, Min(page, TotalPages(totalItems, itemsPerPage)))
    /\ calls' = calls + 1
    /\ UNCHANGED << totalItems, itemsPerPage, authVars, listVars, validatorVars >>

\* nextPage(): setCurrentPage(prevPage => Math.min(prevPage + 1, totalPages))
NextPage ==
  /\ calls < MaxCalls
  /\ currentPage' = Min(currentPage + 1, TotalPages(totalItems, itemsPerPage))
  /\ calls' = calls + 1
  /\ UNCHANGED << totalItems, itemsPerPage, authVars, listVars, validatorVars >>

\* previousPage(): setCurrentPage(prevPage => Math.max(prevPage - 1, 1))
PreviousPage ==
  /\ calls < MaxCalls
  /\ currentPage' = Max(currentPage - 1, 1)
  /\ calls' = calls + 1
  /\ UNCHANGED << totalItems, itemsPerPage, authVars, listVars, validatorVars >>

\* The hook is mounted with every totalItems >= 0 and itemsPerPage >= 1 of
\* the bounds and initialPage = 1.
InitPagination ==
  /\ ValidatorIdle /\ AuthStart /\ ListStart({})
  /\ \E items \in 0..MaxItems, perPage \in 1..MaxPerPage : PageStart(items, perPage)

NextPagination == GoToPage \/ NextPage \/ PreviousPage

SpecPagination == InitPagination /\ [][NextPagination]_vars

\* ------------------------------------------------------------ user list
UserIds == 1..MaxUsers

\* The response of userService.getAll(): the users of the server, by id.
RECURSIVE ById(_)
ById(ids) ==
  IF ids = {}
    THEN << >>
    ELSE LET least == CHOOSE x \in ids : \A y \in ids : x <= y
         IN << least >> \o ById(ids \ { least })

\* A request leaves the list of requests in flight.
Without(s, i) == SubSeq(s, 1, i - 1) \o SubSeq(s, i + 1, Len(s))

\* What the component renders as rows: nothing while loading or when an
\* error is set (the early returns), the users otherwise.
Displayed == IF loading \/ error # << >> THEN {} ELSE SeqToSet(users)

\* fetchUsers of the mount effect, when getAll() resolves.
FetchResolved ==
  /\ loading
  /\ users' = ById(server)
  /\ loading' = FALSE
  /\ UNCHANGED << error, server, inflight, deleted, authVars, pageVars,
                  validatorVars >>

\* fetchUsers of the mount effect, when getAll() rejects.
FetchRejected ==
  /\ loading
  /\ error' = << "Failed to load users" >>
  /\ loading' = FALSE
  /\ UNCHANGED << users, server, inflight, deleted, authVars, pageVars,
                  validatorVars >>

\* A Delete button of a rendered row is clicked: handleDelete(id) of the
\* current render starts and awaits userService.delete(id); the handler keeps
\* the users array of that render.
HandleDelete ==
  \E id \in Displayed :
    /\ Len(inflight) < MaxPending
    /\ inflight' = Append(inflight, [id |-> id, users |-> users])
    /\ UNCHANGED << users, loading, error, server, deleted, authVars, pageVars,
                    validatorVars >>

\* The server deleted the user and the awaited call resolves:
\* setUsers(users.filter(user => user.id !== id)) with the handler's users.
DeleteResolved ==
  \E i \in 1..Len(inflight) :
    /\ inflight[i].id \in server
    /\ server' = server \ { inflight[i].id }
    /\ users' = SelectSeq(inflight[i].users, LAMBDA u : u # inflight[i].id)
    /\ deleted' = deleted \cup { inflight[i].id }
    /\ inflight' = Without(inflight, i)
    /\ UNCHANGED << loading, error, authVars, pageVars, validatorVars >>

\* The awaited call rejects (the user is gone already, or the request
\* failed): setError('Failed to delete user').
DeleteRejected ==
  \E i \in 1..Len(inflight) :
    /\ error' = << "Failed to delete user" >>
    /\ inflight' = Without(inflight, i)
    /\ UNCHANGED << users, loading, server, deleted, authVars, pageVars,
                    validatorVars >>

InitUserList ==
  /\ ValidatorIdle /\ AuthStart /\ PageStart(1, 1)
  /\ \E ids \in SUBSET UserIds : ListStart(ids)

NextUserList ==
  \/ FetchResolved
  \/ FetchRejected
  \/ HandleDelete
  \/ DeleteResolved
  \/ DeleteRejected

SpecUserList == InitUserList /\ [][NextUserList]_vars

\* ------------------------------------------------------------ properties
ErrorsOf(rule) == SelectSeq(errors, LAMBDA e : e.rule = rule)

WarningsOf(rule) == SelectSeq(warnings, LAMBDA w : w.rule = rule)

\* The stored result of a rule.
RulePassed(rule) ==
  \E i \in 1..Len(validation_results) :
    validation_results[i].name = rule /\ validation_results[i].result

RuleFailed(rule) ==
  \E i \in 1..Len(validation_results) :
    validation_results[i].name = rule /\ ~validation_results[i].result

\* C1: after a completed run the verdict validate() returned is success
\* exactly when self.errors is empty, whatever the warnings are.
C1_VerdictIffNoErrors == RunCompleted => (success <=> errors = << >>)

\* A completed run with two warnings, a rule that warned, and success.
C1_Witness ==
  /\ RunCompleted
  /\ pc = "done"
  /\ errors = << >>
  /\ Len(warnings) = 2
  /\ WarningsOf(RuleMain) # << >>
  /\ success

\* C2: the exit status is 0 exactly when the run completed with no error,
\* and 1 otherwise: a wrong argument count, a schema document that is
\* missing or cannot be loaded, or a completed run with errors.
C2_ExitStatus ==
  /\ pc # "done" => exit_status = << >>
  /\ pc = "done" =>
       /\ exit_status \in { << 0 >>, << 1 >> }
       /\ exit_status = << 0 >> <=> (RunCompleted /\ errors = << >>)
       /\ (argc # 3 \/ erd.st # "ok" \/ openapi # "ok") => exit_status = << 1 >>

\* A run that ended with status 1 because the ERD could not be parsed.
C2_Witness ==
  /\ pc = "done"
  /\ erd.st = "invalid"
  /\ ~RunCompleted
  /\ exit_status = << 1 >>

\* The required markers of the auth file that its content does not have
\* (all of them when there is no file).
AuthMarkersMissing ==
  { m \in SeqToSet(AuthMarkers) : ~Exists(tree, AuthFile) \/ m \notin tree.markers[AuthFile] }

\* C6 as stated: with authentication disabled the auth rule passes without
\* a finding; with it enabled and the file absent there is one finding per
\* missing required marker.
C6_Original ==
  RunCompleted =>
    /\ ~erd.auth => (RulePassed(RuleAuth) /\ ErrorsOf(RuleAuth) = << >>)
    /\ (erd.auth /\ ~Exists(tree, AuthFile)) =>
         Len(ErrorsOf(RuleAuth)) = Cardinality(AuthMarkersMissing)

\* C6 amended: with authentication disabled the auth rule passes without a
\* finding, whether or not the file exists; with it enabled and the file
\* absent the rule fails with exactly one finding, the file-not-found one.
C6_AuthPresence ==
  RunCompleted =>
    /\ ~erd.auth =>
         (RulePassed(RuleAuth) /\ ErrorsOf(RuleAuth) = << >> /\ WarningsOf(RuleAuth) = << >>)
    /\ (erd.auth /\ ~Exists(tree, AuthFile)) =>
         /\ ErrorsOf(RuleAuth) = << Finding(RuleAuth, "File not found", << << AuthFile >> >>) >>
         /\ RuleFailed(RuleAuth)

\* Authentication enabled, no auth file, and the rule has run.
C6_Witness ==
  /\ RunCompleted
  /\ erd.auth
  /\ ~Exists(tree, AuthFile)
  /\ RuleFailed(RuleAuth)

\* The marker rules: target file and required (error) markers.
MarkerRules ==
  { RuleApp, RuleMain, RuleAppCss, RuleIndexCss, RuleAuth, RuleCtxBarrel,
    RuleHtml, RuleStorage }

RuleTarget(rule) ==
  CASE rule = RuleApp -> AppFile
    [] rule = RuleMain -> MainFile
    [] rule = RuleAppCss -> AppCssFile
    [] rule = RuleIndexCss -> IndexCssFile
    [] rule = RuleAuth -> AuthFile
    [] rule = RuleCtxBarrel -> CtxIndexFile
    [] rule = RuleHtml -> HtmlFile
    [] rule = RuleStorage -> StorageFile

RuleRequired(rule, auth) ==
  CASE rule = RuleApp -> SeqToSet(AppMarkers(auth))
    [] rule = RuleMain -> SeqToSet(MainMarkers)
    [] rule = RuleAppCss -> SeqToSet(AppCssMarkers)
    [] rule = RuleIndexCss -> SeqToSet(IndexCssMarkers)
    [] rule = RuleAuth -> IF auth THEN SeqToSet(AuthMarkers) ELSE {}
    [] rule = RuleCtxBarrel -> IF auth THEN SeqToSet(CtxBarrelMarkers) ELSE {}
    [] rule = RuleHtml -> SeqToSet(HtmlMarkers)
    [] rule = RuleStorage -> SeqToSet(StorageMarkers)

AbsentMarkers(rule) == RuleRequired(rule, erd.auth) \ tree.markers[RuleTarget(rule)]

\* The baseline entries and scripts a parsed manifest lacks.
ManifestLacks ==
  Cardinality(BaselineDeps \ tree.manifest.deps)
  + Cardinality(SeqToSet(RequiredScripts) \ tree.manifest.scripts)

\* C7: a presence rule whose file exists and can be read produces as many
\* error findings as required markers are absent from the file, and passes
\* exactly when none is absent.
C7_OneFindingPerMarker ==
  RunCompleted =>
    /\ \A rule \in MarkerRules :
         Readable(tree, RuleTarget(rule)) =>
           /\ Len(ErrorsOf(rule)) = Cardinality(AbsentMarkers(rule))
           /\ RulePassed(rule) <=> AbsentMarkers(rule) = {}
    /\ PkgParsed(tree) =>
         /\ Len(ErrorsOf(RulePkg)) = ManifestLacks
         /\ RulePassed(RulePkg) <=> ManifestLacks = 0

\* App.tsx is readable and lacks two required markers: two findings.
C7_Witness ==
  /\ RunCompleted
  /\ Readable(tree, AppFile)
  /\ Cardinality(AbsentMarkers(RuleApp)) = 2
  /\ Len(ErrorsOf(RuleApp)) = 2
  /\ RuleFailed(RuleApp)


\* ------------------------------------------------------------ import claims
\* The import statements of a readable scanned file that the scan extracts,
\* by position in the file.
ScannedSet == SeqToSet(ScannedFiles(tree))

ExtractedIn(p) ==
  IF tree.modules[p].st # "ok"
    THEN {}
    ELSE { i \in 1..Len(tree.modules[p].imports) :
             tree.modules[p].imports[i].k \in { "named", "default", "namespace" } }

ImportAt(p, i) == tree.modules[p].imports[i]

PathFindingsFor(p, from_path) ==
  CountIf(errors, LAMBDA e : /\ e.rule = RuleImports
                             /\ e.kind = "Import path not found"
                             /\ e.args = << p, from_path >>)

SymbolFindingsFor(p, from_path) ==
  CountIf(errors, LAMBDA e : /\ e.rule = RuleImports
                             /\ e.kind = "Symbol not exported"
                             /\ e.args[1] = p /\ e.args[3] = from_path)

\* A requested name is satisfied by an export set: it is in the set, or the
\* set has the wildcard, or the name is the default sentinel and the set has
\* "default".  The one identifier of a single (default-style) import stands
\* for the default export, so "default" in the set satisfies it as well.
Satisfied(stmt, n, exports) ==
  \/ n \in exports
  \/ "*" \in exports
  \/ (n = "default" \/ stmt.k = "default") /\ "default" \in exports

\* C3 (as stated): when a grouped or single import of file A resolves to a
\* scanned file B and the run has no Import Validation finding for it, every
\* requested name is in B's export set, or B's export set has the wildcard,
\* or the name is the default sentinel and B's export set has "default".
C3_ResolutionSound ==
  (RunCompleted /\ SrcDir \in tree.dirs) =>
    \A A \in ScannedSet : \A i \in ExtractedIn(A) :
      LET R == ImportAt(A, i)
          B == ResolveImportPath(tree, A, R.from)
      IN (/\ R.k \in { "named", "default" }
          /\ IsRelative(R.from) /\ ~EndsWithCss(R.from)
          /\ B # None /\ B \in DOMAIN file_exports
          /\ PathFindingsFor(A, R.from) = 0
          /\ SymbolFindingsFor(A, R.from) = 0)
         => \A j \in 1..Len(R.items) :
              Satisfied(R, R.items[j].name, file_exports[B])

\* No probe of the resolver names an existing file.
NoProbeMatches(p, from_path) ==
  \A c \in SeqToSet(Candidates(ResolvedBase(p, from_path))) :
    c \notin DOMAIN tree.modules

RelativeTargets(p) ==
  { ImportAt(p, i).from : i \in { j \in ExtractedIn(p) :
                                    /\ IsRelative(ImportAt(p, j).from)
                                    /\ ~EndsWithCss(ImportAt(p, j).from) } }

ReferencesTo(p, from_path) ==
  Cardinality({ i \in ExtractedIn(p) : ImportAt(p, i).from = from_path })

\* C4: a relative reference whose specifier matches no probe of the resolver
\* gets exactly one finding naming the importing file and the specifier,
\* one per reference, and no symbol finding; a specifier that matches a
\* probe gets no such finding.
C4_UnresolvedReported ==
  (RunCompleted /\ SrcDir \in tree.dirs) =>
    \A A \in ScannedSet : \A from_path \in RelativeTargets(A) :
      IF NoProbeMatches(A, from_path)
        THEN /\ PathFindingsFor(A, from_path) = ReferencesTo(A, from_path)
             /\ SymbolFindingsFor(A, from_path) = 0
        ELSE PathFindingsFor(A, from_path) = 0

C4_Witness ==
  /\ RunCompleted
  /\ ModA \in ScannedSet
  /\ NoProbeMatches(ModA, SpecB)
  /\ ReferencesTo(ModA, SpecB) = 2
  /\ PathFindingsFor(ModA, SpecB) = 2

\* The packages the bare specifiers of the scanned files name.
NamedPackages ==
  UNION { { ExtractPackageName(ImportAt(p, i).from) :
              i \in { j \in ExtractedIn(p) : ~IsRelative(ImportAt(p, j).from) } } :
          p \in ScannedSet }

ImportersOf(package) ==
  { p \in ScannedSet :
      \E i \in ExtractedIn(p) : /\ ~IsRelative(ImportAt(p, i).from)
                                /\ ExtractPackageName(ImportAt(p, i).from) = package }

ManifestPackages == IF PkgParsed(tree) THEN tree.manifest.deps ELSE {}

PackageFindingsFor(errs, package) ==
  CountIf(errs, LAMBDA e : e.rule = RuleImports /\ e = PackageFinding(package))

\* C5: every distinct package a bare specifier names gets exactly one
\* finding when package.json does not list it and none when it does,
\* however many files import it; after the package is added to
\* package.json the next run has no finding for it.
C5_ManifestFindings ==
  (RunCompleted /\ SrcDir \in tree.dirs) =>
    /\ \A package \in NamedPackages :
         PackageFindingsFor(errors, package)
           = IF package \in ManifestPackages THEN 0 ELSE 1
    /\ edit.k = "add_package" =>
         /\ PackageFindingsFor(prev.errors, edit.arg) = 1
         /\ PackageFindingsFor(errors, edit.arg) = 0

C5_Witness ==
  /\ RunCompleted
  /\ edit.k = "add_package"
  /\ Cardinality(ImportersOf(edit.arg)) = 2
  /\ PackageFindingsFor(prev.errors, edit.arg) = 1
  /\ PackageFindingsFor(errors, edit.arg) = 0
  /\ \E package \in NamedPackages : PackageFindingsFor(errors, package) = 1

\* C9 (as stated): a scanned file whose reading raises is identified by a
\* finding of the run, and every rule is still evaluated and recorded.
C9_FileErrorRecorded ==
  (RunCompleted /\ SrcDir \in tree.dirs) =>
    /\ Len(validation_results) = Len(order)
    /\ \A p \in ScannedSet :
         tree.modules[p].st = "unreadable" =>
           \E i \in 1..Len(errors) : p \in Mentions(errors[i])

\* ------------------------------------------------------------ wiring claims
NamingKind == "View missing route constant in routes.ts"

NamingFindingsFor(errs, view_name) ==
  SelectSeq(errs, LAMBDA e : /\ e.rule = RuleRouteView
                             /\ e.kind = NamingKind
                             /\ view_name \in Mentions(e))

WiringFindingsFor(errs, view_name) ==
  SelectSeq(errs, LAMBDA e : e.rule = RuleRouteView /\ view_name \in Mentions(e))

WiringReadable ==
  /\ ViewsDir \in tree.dirs
  /\ Readable(tree, RoutesFile)
  /\ Readable(tree, RouterFile)

HasOrderView == OrderView \in SeqToSet(tree.views)

SourcesOf(t, e) ==
  CASE e.rule = RuleRouteView ->
         IF e.kind = NamingKind THEN { << RoutesFile >> }
         ELSE IF e.args # << >> THEN { << RouterFile >> }
         ELSE { << RoutesFile >>, << RouterFile >> }
    [] e.rule = RuleCompBarrel -> { << CompIndexFile >> }
    [] e.rule = RuleImports ->
         IF e.kind = "Import path not found" THEN { e.args[1] }
         ELSE IF e.kind = "Symbol not exported"
           THEN { e.args[1], ResolveImportPath(t, e.args[1], e.args[3]) }
           ELSE { << PkgFile >> } \cup DOMAIN t.modules
    [] OTHER -> { << f >> : f \in FixedFiles }

\* C10 (as stated): making one file unreadable removes no finding that was
\* computed from other files; each such finding of the run before is a
\* finding of the run on the corrupted tree.
C10_Isolation ==
  (RunCompleted /\ edit.k = "corrupt") =>
    \A i \in 1..Len(prev.errors) :
      edit.arg \notin SourcesOf(prev.tree, prev.errors[i]) =>
        \E j \in 1..Len(errors) : errors[j] = prev.errors[i]

\* ------------------------------------------------------------ repeated-run claims
\* C11 (as stated): a run with the rules called in another order has the
\* same outcome for every rule and the same set of findings as the run
\* before it on the same tree.
C11_OrderInsensitive ==
  (RunCompleted /\ edit.k = "reorder") =>
    /\ SeqToSet(validation_results) = SeqToSet(prev.results)
    /\ SeqToSet(errors) = SeqToSet(prev.errors)
    /\ SeqToSet(warnings) = SeqToSet(prev.warnings)

\* C12 (as stated): a second run on the unmodified tree with the same
\* documents has the same error list and the same warning list as the first,
\* entry by entry.
C12_Idempotent ==
  (RunCompleted /\ edit.k = "run_again") =>
    /\ errors = prev.errors
    /\ warnings = prev.warnings

\* ------------------------------------------------------------ abort claims
ReportSections ==
  { "VALIDATION SUMMARY", "ERROR DETAILS", "WARNINGS", "VALIDATION STATISTICS" }

ReportProduced == \E i \in 1..Len(output) : output[i].sec \in ReportSections

FatalInput == erd.st # "ok" \/ openapi # "ok"

\* C13: when a schema document is missing or cannot be parsed, no rule is
\* ever evaluated: at no point of the run is a rule outcome recorded or a
\* report section printed, and the process ends with status 1.
C13_FatalInputAborts ==
  (argc = 3 /\ FatalInput) =>
    /\ pc # "rules"
    /\ validation_results = << >>
    /\ ~ReportProduced
    /\ pc = "done" => exit_status = << 1 >>

C13_Witness ==
  /\ pc = "done"
  /\ argc = 3
  /\ erd.st = "ok" /\ openapi = "invalid"
  /\ errors = << LoadError >>
  /\ validation_results = << >>
  /\ exit_status = << 1 >>

\* C14 (as stated): when the root directory of the tree does not exist, the
\* run is aborted at once: no rule outcome is recorded and no part of the
\* report is printed.
C14_MissingRootAborts ==
  (argc = 3 /\ ~FatalInput /\ ~tree.root) =>
    /\ validation_results = << >>
    /\ ~ReportProduced

\* ------------------------------------------------------------ manifest claims
BaselineNames ==
  { Pkg("react"), Pkg("react-dom"), Pkg("react-router-dom"), Pkg("axios"),
    Scoped("@types", "react"), Scoped("@types", "react-dom"),
    Scoped("@vitejs", "plugin-react"), Pkg("typescript"), Pkg("vite") }

BaselineFindingsFor(package) ==
  CountIf(errors, LAMBDA e : /\ e.rule = RulePkg
                             /\ e.kind \in { "Missing required dependency",
                                             "Missing required dev dependency" }
                             /\ e.args = << package >>)

\* C15: for a package.json that parses, each of the nine baseline entries
\* that it lacks gets exactly one finding naming it and each entry it has
\* gets none, whatever the source files import.
C15_BaselineEntries ==
  (RunCompleted /\ PkgParsed(tree)) =>
    \A package \in BaselineNames :
      BaselineFindingsFor(package)
        = IF package \in tree.manifest.deps THEN 0 ELSE 1

\* No source file imports anything, axios and vite are missing from
\* package.json, and each of the two has its finding.
C15_Witness ==
  /\ RunCompleted
  /\ PkgParsed(tree)
  /\ DOMAIN tree.modules = {}
  /\ Pkg("axios") \notin tree.manifest.deps
  /\ Pkg("vite") \notin tree.manifest.deps
  /\ BaselineFindingsFor(Pkg("axios")) = 1
  /\ BaselineFindingsFor(Pkg("vite")) = 1
  /\ BaselineFindingsFor(Pkg("react")) = 0

\* ------------------------------------------------------------ report claims
LinesOf(sec) == SelectSeq(output, LAMBDA line : line.sec = sec)

\* The advisory markers (React.StrictMode in main.tsx, :root or html in
\* index.css) that a readable file lacks.
AdvisoryAbsent ==
  (IF Readable(tree, MainFile)
     THEN SeqToSet(MainWarnMarkers) \ tree.markers[MainFile] ELSE {})
  \cup (IF Readable(tree, IndexCssFile)
          THEN SeqToSet(IndexCssWarnMarkers) \ tree.markers[IndexCssFile] ELSE {})

AllAdvisoryAbsent ==
  /\ Readable(tree, MainFile) /\ Readable(tree, IndexCssFile)
  /\ AdvisoryAbsent = SeqToSet(MainWarnMarkers) \cup SeqToSet(IndexCssWarnMarkers)

C17_ReadOnly ==
  [][tree' = tree /\ erd' = erd /\ openapi' = openapi]_vars

\* A run that failed has ended on the empty tree, which is still empty.
C17_Witness ==
  /\ pc = "done"
  /\ RunCompleted
  /\ ~success
  /\ tree = EmptyTree

\* ------------------------------------------------------------ resolver claims
\* The candidates in the order the claim gives: the exact path, the path
\* with each extension, index.ts and index.tsx inside the path.
ClaimedCandidates(resolved) == << resolved >> \o Candidates(resolved)

FirstExisting(cands) ==
  LET hits == { i \in 1..Len(cands) : cands[i] \in DOMAIN tree.modules }
  IN IF hits = {} THEN None ELSE cands[CHOOSE i \in hits : \A j \in hits : i <= j]

\* C18 (as stated): a relative specifier resolves to the first existing
\* candidate of the exact path, the path with each extension, and the two
\* index files; it is reported unresolved only when none of them exists.
C18_ExactPathFirst ==
  (RunCompleted /\ SrcDir \in tree.dirs) =>
    \A A \in ScannedSet : \A from_path \in RelativeTargets(A) :
      LET claimed == FirstExisting(ClaimedCandidates(ResolvedBase(A, from_path)))
      IN /\ ResolveImportPath(tree, A, from_path) = claimed
         /\ PathFindingsFor(A, from_path) > 0 <=> claimed = None

\* The package identifier the claim gives for a bare specifier.
ClaimedPackage(from_path) ==
  IF Head(from_path) \in { "@types", "@vitejs", "@scope" } /\ Len(from_path) >= 2
    THEN SubSeq(from_path, 1, 2)
    ELSE SubSeq(from_path, 1, 1)

BareTargets(p) ==
  { ImportAt(p, i).from : i \in { j \in ExtractedIn(p) : ~IsRelative(ImportAt(p, j).from) } }

\* C19: the package checked against package.json for a bare specifier is its
\* first two segments when it starts with '@' (the first alone when there is
\* only one) and its first segment otherwise: each such package has one
\* finding when package.json lacks it and none when it has it, and no other
\* name is reported; 'react-dom/client' is checked as 'react-dom'.
C19_PackageIdentifier ==
  (RunCompleted /\ SrcDir \in tree.dirs) =>
    /\ \A A \in ScannedSet : \A from_path \in BareTargets(A) :
         PackageFindingsFor(errors, ClaimedPackage(from_path))
           = IF ClaimedPackage(from_path) \in ManifestPackages THEN 0 ELSE 1
    /\ \A i \in 1..Len(errors) :
         errors[i].kind = PackageFinding(<< >>).kind =>
           \E A \in ScannedSet : \E from_path \in BareTargets(A) :
             errors[i].args = << ClaimedPackage(from_path) >>
    /\ (ModA \in ScannedSet /\ SpecReactDomClient \in BareTargets(ModA)) =>
         PackageFindingsFor(errors, Pkg("react-dom"))
           = IF Pkg("react-dom") \in ManifestPackages THEN 0 ELSE 1

\* '@types/react/jsx-runtime' is imported, package.json lacks @types/react,
\* and the one package finding names '@types/react'.
C19_Witness ==
  /\ RunCompleted
  /\ ModA \in ScannedSet
  /\ SpecTypesReact \in BareTargets(ModA)
  /\ PkgParsed(tree)
  /\ Scoped("@types", "react") \notin tree.manifest.deps
  /\ PackageFindingsFor(errors, Scoped("@types", "react")) = 1
  /\ Len(ErrorsOf(RuleImports)) = 1

\* ------------------------------------------------------------ export claims
\* The list exports of a readable scanned file that rename a symbol.
RenamingItems(p) ==
  IF tree.modules[p].st # "ok"
    THEN {}
    ELSE UNION { { stmt.items[j] : j \in { k \in 1..Len(stmt.items) :
                                            stmt.items[k].alias # "" } } :
                 stmt \in { x \in tree.modules[p].exports : x.k = "list" } }

\* C20 (as stated): for a list export 'a as b' the export set of the file
\* has the visible name b, and an import of b from that file gets no symbol
\* finding.
C20_AliasVisibleName ==
  (RunCompleted /\ SrcDir \in tree.dirs) =>
    \A B \in ScannedSet : \A item \in RenamingItems(B) :
      /\ item.alias \in file_exports[B]
      /\ \A A \in ScannedSet : \A i \in ExtractedIn(A) :
           LET R == ImportAt(A, i)
           IN (/\ R.k = "named"
               /\ IsRelative(R.from)
               /\ ResolveImportPath(tree, A, R.from) = B
               /\ \A j \in 1..Len(R.items) : R.items[j].name = item.alias)
              => SymbolFindingsFor(A, R.from) = 0

\* ------------------------------------------------------------ symbol table claims
\* The readable scanned files whose content matches no export pattern.
NoExportFiles ==
  { p \in ScannedSet : /\ tree.modules[p].st = "ok"
                       /\ \A stmt \in tree.modules[p].exports : ExportedBy(stmt) = {} }

\* The symbol findings of the run, and the references that can cause one: a
\* name requested by an extracted import of a scanned file.
SymbolErrors ==
  { e \in SeqToSet(errors) : e.rule = RuleImports /\ e.kind = "Symbol not exported" }

RequestedBy(e) ==
  \E A \in ScannedSet : \E i \in ExtractedIn(A) :
    /\ e.args[1] = A
    /\ e.args[3] = ImportAt(A, i).from
    /\ \E j \in 1..Len(ImportAt(A, i).items) :
         e.args[2] = << ImportAt(A, i).items[j].name >>

\* C21 (as stated): a scanned file that matches no export pattern has no
\* entry in the symbol table.
C21_NoExportsAbsent ==
  (RunCompleted /\ SrcDir \in tree.dirs) =>
    \A p \in NoExportFiles : p \notin DOMAIN file_exports

\* C21 (as the code has it): a scanned file that matches no export pattern
\* has an entry in the symbol table, the empty export set; the entry alone
\* produces no finding, since every symbol finding of the run is about a name
\* that an import of a scanned file requests.
C21_NoExportsEmptyEntry ==
  (RunCompleted /\ SrcDir \in tree.dirs) =>
    /\ \A p \in NoExportFiles : p \in DOMAIN file_exports /\ file_exports[p] = {}
    /\ \A e \in SymbolErrors : RequestedBy(e)
    /\ (\A A \in ScannedSet : ExtractedIn(A) = {}) => SymbolErrors = {}

\* b.ts exports nothing and nothing imports from it: it has its empty entry
\* and the run has no symbol finding.
C21_Witness ==
  /\ RunCompleted
  /\ ModB \in NoExportFiles
  /\ file_exports[ModB] = {}
  /\ \A A \in ScannedSet : ExtractedIn(A) = {}
  /\ SymbolErrors = {}

\* The extracted relative, non-style references of scanned file A that the
\* resolver resolves to file B.
ReferencesResolvedTo(A, B) ==
  { i \in ExtractedIn(A) : /\ IsRelative(ImportAt(A, i).from)
                           /\ ~EndsWithCss(ImportAt(A, i).from)
                           /\ ResolveImportPath(tree, A, ImportAt(A, i).from) = B }

\* A readable file with a wildcard re-export statement.
HasWildcard(B) ==
  /\ tree.modules[B].st = "ok"
  /\ \E stmt \in tree.modules[B].exports : stmt.k = "star"

\* The names some file of the tree declares or lists as exports.
DefinedSomewhere ==
  UNION { ExportedBy(stmt) \ { "*", "default" } :
            stmt \in UNION { tree.modules[p].exports : p \in DOMAIN tree.modules } }

\* C22: when a reference resolves to a file with a wildcard re-export, the
\* file's export set, when the run scanned the file, contains "*", and no
\* requested name gets a symbol finding, whatever the names are and whether
\* or not any file of the tree defines them.
C22_WildcardSatisfiesAll ==
  (RunCompleted /\ SrcDir \in tree.dirs) =>
    \A A \in ScannedSet : \A B \in DOMAIN tree.modules :
      (HasWildcard(B) /\ ReferencesResolvedTo(A, B) # {}) =>
        /\ B \in ScannedSet => "*" \in file_exports[B]
        /\ \A i \in ReferencesResolvedTo(A, B) :
             SymbolFindingsFor(A, ImportAt(A, i).from) = 0

\* a.ts requests Foo and Baz from './b', b.ts has only a wildcard re-export
\* and no file defines Foo or Baz: no symbol finding.
C22_Witness ==
  /\ RunCompleted
  /\ ModB \in ScannedSet
  /\ tree.modules[ModB] = StarOnly
  /\ "*" \in file_exports[ModB]
  /\ \E i \in ReferencesResolvedTo(ModA, ModB) :
       /\ ImportAt(ModA, i).k = "named"
       /\ Len(ImportAt(ModA, i).items) = 2
       /\ \A j \in 1..2 : ImportAt(ModA, i).items[j].name \notin DefinedSomewhere
  /\ SymbolErrors = {}

\* C23 (as stated): every relative, non-style reference that the resolver
\* resolves to a file resolves to a file with an entry in the symbol table
\* built by the run.
C23_ResolvedIsScanned ==
  (RunCompleted /\ SrcDir \in tree.dirs) =>
    \A A \in ScannedSet : \A B \in DOMAIN tree.modules :
      (ReferencesResolvedTo(A, B) # {} /\ ~EndsWithCss(B)) =>
        B \in DOMAIN file_exports

\* ------------------------------------------------------------ naming claims
\* The views the naming rule checks: the listed ones beside Home and NotFound.
CheckedViews == SeqToSet(tree.views) \ SpecialViews

\* C24 (as stated): with the views directory, routes.ts and router/index.tsx
\* readable, a checked view <Entity>View has a missing-route-constant finding
\* exactly when the route table declares no key equal to the upper-cased
\* entity name.
C24_RouteConstantIff ==
  (RunCompleted /\ WiringReadable) =>
    \A view_name \in CheckedViews :
      (NamingFindingsFor(errors, view_name) # << >>)
        <=> (Upper(Front(view_name)) \notin tree.routeKeys)

BarrelKind == "Component not exported from components/index.ts"

BarrelFindingsFor(component_name) ==
  CountIf(errors, LAMBDA e : /\ e.rule = RuleCompBarrel
                             /\ e.kind = BarrelKind
                             /\ e.args = << component_name >>)

\* C25 (as stated): with the components directory present and
\* components/index.ts readable, a component file beside Layout, Navbar and
\* Sidebar has exactly one barrel finding when the barrel does not re-export
\* it and none when it does; Layout, Navbar and Sidebar never have one.
C25_BarrelIff ==
  (RunCompleted /\ ComponentsDir \in tree.dirs /\ Readable(tree, CompIndexFile)) =>
    \A c \in SeqToSet(tree.components) :
      IF c \in SpecialComponents
        THEN BarrelFindingsFor(c) = 0
        ELSE BarrelFindingsFor(c) = (IF c \in tree.barrel THEN 0 ELSE 1)

\* ------------------------------------------------------------ outcome claims
\* The results recorded under a rule's name.
RecordedFor(rule) ==
  { i \in 1..Len(validation_results) : validation_results[i].name = rule }

\* C27: after a completed run every rule has one recorded outcome, it is
\* failed exactly when the rule appended at least one error during the run
\* (warnings do not count), and the verdict is success exactly when every
\* rule's outcome is passed.
C27_OutcomeIffErrors ==
  RunCompleted =>
    /\ \A rule \in RuleNames :
         /\ Cardinality(RecordedFor(rule)) = 1
         /\ RuleFailed(rule) <=> ErrorsOf(rule) # << >>
    /\ success <=> \A rule \in RuleNames : RulePassed(rule)

\* A completed run where index.html is nowhere (the early return of the
\* location rule failed it), another rule passed with a warning, and the
\* verdict is failure.
C27_Witness ==
  /\ RunCompleted
  /\ pc = "done"
  /\ RuleFailed(RuleHtmlLoc) /\ Len(ErrorsOf(RuleHtmlLoc)) = 1
  /\ \E rule \in RuleNames : RulePassed(rule) /\ WarningsOf(rule) # << >>
  /\ \E rule \in RuleNames : RuleFailed(rule) /\ Len(ErrorsOf(rule)) >= 2
  /\ ~success

\* ------------------------------------------------------------ default import claims
\* C28 (as stated): when a single (default-style) import resolves to a
\* scanned file and the run has no symbol finding for it, the file's export
\* set contains "default" or "*"; a named export with the imported
\* identifier's name does not satisfy it.
C28_DefaultNeedsDefault ==
  (RunCompleted /\ SrcDir \in tree.dirs) =>
    \A A \in ScannedSet : \A B \in ScannedSet :
      \A i \in ReferencesResolvedTo(A, B) :
        (ImportAt(A, i).k = "default"
         /\ SymbolFindingsFor(A, ImportAt(A, i).from) = 0)
          => (file_exports[B] \cap { "default", "*" }) # {}

\* ------------------------------------------------------------ API client claims
\* C26 (as stated, its first half): whenever a request goes out while an auth
\* token stored through tokenStorage.setAuthToken has not been removed, the
\* request interceptor puts the header Authorization: Bearer <that token> on
\* the request.
C26_BearerWhenStored ==
  [][(ApiRequest /\ GetAuthToken(localStorage) # << >>)
       => request'.Authorization = << "Bearer" >> \o GetAuthToken(localStorage)]_vars

\* ------------------------------------------------------------ pagination claims
\* C29 (as stated): with totalItems >= 0, itemsPerPage >= 1 and
\* initialPage = 1, after any sequence of goToPage, nextPage and previousPage
\* calls currentPage is at least 1, and at most totalPages when totalPages is
\* at least 1.
C29_PageInRange ==
  /\ currentPage >= 1
  /\ TotalPages(totalItems, itemsPerPage) >= 1
       => currentPage <= TotalPages(totalItems, itemsPerPage)

\* ------------------------------------------------------------ user list claims
\* C30 (as stated): once a delete request for a user id has completed
\* successfully, that user is never in the displayed list again, whatever
\* the interleaving of overlapping delete requests.
C30_DeletedStaysGone == \A id \in deleted : id \notin Displayed
====
